---------------------------- MODULE Spec2Model ----------------------------
(***************************************************************************)
(* A model of the abczed editor (src/src/abczed.c): the line buffer, the   *)
(* cursor, the selection, the clipboard, the undo/redo operation log, the  *)
(* mode state machine and the main loop that reads one key per iteration.  *)
(*                                                                         *)
(* The global editor_config E is the record of the state variables; every  *)
(* C function that changes E is an operator from a value of E to the value *)
(* of E when the function returns, so that a handler that calls other      *)
(* functions is their composition, in the order of the calls.              *)
(*                                                                         *)
(* Rows and columns are 0-based as in the source: Row(e, i) is E.row[i].   *)
(* A C string is the sequence of its characters before the terminator.     *)
(*                                                                         *)
(* fault: the code reads or writes outside a row's characters, outside     *)
(* E.row[0 .. numrows-1], through a NULL pointer or an uninitialized       *)
(* pointer.  The C standard leaves the outcome undefined, so no single     *)
(* outcome is chosen: fault = TRUE stands for every outcome, it is final,  *)
(* and nothing is claimed to hold in it.                                   *)
(*                                                                         *)
(* leaked: the heap.  The copies of line content malloc'ed for an          *)
(* operation (op->line) and for the clipboard (E.clipboard[i]) are freed   *)
(* where the code calls free on them; leaked = TRUE once one of them is    *)
(* still allocated when the last pointer to it is gone.                    *)
(***************************************************************************)
EXTENDS Integers, Sequences, FiniteSets, TLC

(***************************************************************************)
(* Bounds of the model.                                                    *)
(***************************************************************************)
MaxLen == 2        \* longest row, in characters
MaxRows == 3       \* most rows in the buffer
MaxOps == 3        \* deepest Undo or Redo stack
MaxDirty == 3      \* largest value of the dirty counter

(***************************************************************************)
(* Characters.  Chars are the printable characters typed as text; CR and   *)
(* LF are the line terminators of a file; NUL is the character code 0      *)
(* push_operation is given for a line operation.                           *)
(***************************************************************************)
Chars == {"a", "c"}
CR == "\r"
LF == "\n"
NUL == "NUL"

MODE_NORMAL == "MODE_NORMAL"
MODE_INSERT == "MODE_INSERT"
MODE_COMMAND == "MODE_COMMAND"
MODE_SELECTION == "MODE_SELECTION"

OP_INSERT_CHAR == "OP_INSERT_CHAR"
OP_DELETE_CHAR == "OP_DELETE_CHAR"
OP_INSERT_LINE == "OP_INSERT_LINE"
OP_DELETE_LINE == "OP_DELETE_LINE"
OP_NEWLINE == "OP_NEWLINE"

VARIABLES
    row,          \* E.row[0 .. numrows-1]: the rows, each a sequence of characters
    cx, cy,       \* E.cx, E.cy: cursor column and row
    rowoff,       \* E.rowoff: first row shown
    screenrows,   \* E.screenrows: rows of the text area
    dirty,        \* E.dirty
    filename,     \* E.filename: NoName (NULL) or the name
    mode,         \* E.mode
    clipboard,    \* E.clipboard[0 .. clipboard_len-1]; <<>> is NULL
    commandbuf,   \* E.commandbuf[0 .. commandlen-1]
    sel_start_x, sel_start_y, sel_end_x, sel_end_y,  \* selection endpoints
    selecting,    \* E.selecting
    undo_stack,   \* E.undo_stack, top first
    redo_stack,   \* E.redo_stack, top first
    ungot,        \* the key ungetch() pushed back, or NoKey
    disk,         \* the bytes of the file named FileName, or NoFile
    running,      \* FALSE once exit() was called
    fault,        \* TRUE once the code's behaviour is undefined
    leaked,       \* TRUE once a line copy can no longer be freed
    ws_row        \* rows of the terminal (the environment)

vars == <<row, cx, cy, rowoff, screenrows, dirty, filename, mode, clipboard,
          commandbuf, sel_start_x, sel_start_y, sel_end_x, sel_end_y,
          selecting, undo_stack, redo_stack, ungot, disk, running, fault,
          leaked, ws_row>>

NoName == <<>>               \* E.filename = NULL
FileName == <<"f">>
NoFile == <<"NoFile">>       \* no file of that name can be opened
NoKey == "NoKey"
Uninit == <<"Uninit">>       \* a clipboard slot malloc'ed but never assigned

(***************************************************************************)
(* The value of E (and of what the main loop keeps beside it) in the       *)
(* current state.                                                          *)
(***************************************************************************)
E == [row |-> row, cx |-> cx, cy |-> cy, rowoff |-> rowoff,
      screenrows |-> screenrows, dirty |-> dirty, filename |-> filename,
      mode |-> mode, clipboard |-> clipboard, commandbuf |-> commandbuf,
      sel_start_x |-> sel_start_x, sel_start_y |-> sel_start_y,
      sel_end_x |-> sel_end_x, sel_end_y |-> sel_end_y,
      selecting |-> selecting, undo_stack |-> undo_stack,
      redo_stack |-> redo_stack, ungot |-> ungot, disk |-> disk,
      running |-> running, fault |-> fault, leaked |-> leaked]

Commit(n) ==
    /\ row' = n.row
    /\ cx' = n.cx
    /\ cy' = n.cy
    /\ rowoff' = n.rowoff
    /\ screenrows' = n.screenrows
    /\ dirty' = n.dirty
    /\ filename' = n.filename
    /\ mode' = n.mode
    /\ clipboard' = n.clipboard
    /\ commandbuf' = n.commandbuf
    /\ sel_start_x' = n.sel_start_x
    /\ sel_start_y' = n.sel_start_y
    /\ sel_end_x' = n.sel_end_x
    /\ sel_end_y' = n.sel_end_y
    /\ selecting' = n.selecting
    /\ undo_stack' = n.undo_stack
    /\ redo_stack' = n.redo_stack
    /\ ungot' = n.ungot
    /\ disk' = n.disk
    /\ running' = n.running
    /\ fault' = n.fault
    /\ leaked' = n.leaked

Commit0(n) ==
    /\ row = n.row
    /\ cx = n.cx
    /\ cy = n.cy
    /\ rowoff = n.rowoff
    /\ screenrows = n.screenrows
    /\ dirty = n.dirty
    /\ filename = n.filename
    /\ mode = n.mode
    /\ clipboard = n.clipboard
    /\ commandbuf = n.commandbuf
    /\ sel_start_x = n.sel_start_x
    /\ sel_start_y = n.sel_start_y
    /\ sel_end_x = n.sel_end_x
    /\ sel_end_y = n.sel_end_y
    /\ selecting = n.selecting
    /\ undo_stack = n.undo_stack
    /\ redo_stack = n.redo_stack
    /\ ungot = n.ungot
    /\ disk = n.disk
    /\ running = n.running
    /\ fault = n.fault
    /\ leaked = n.leaked

(***************************************************************************)
(* Helpers on rows.                                                        *)
(***************************************************************************)
numrows(e) == Len(e.row)
Row(e, i) == e.row[i + 1]
RowSize(e, i) == Len(e.row[i + 1])
ValidRow(e, i) == 0 <= i /\ i < numrows(e)
\* characters [a, b) of s
Sub(s, a, b) == SubSeq(s, a + 1, b)
SetRow(e, i, s) == [e EXCEPT !.row[i + 1] = s]
Fault(e) == [e EXCEPT !.fault = TRUE]

\* the row stored after the last row, with no row shifted
insert_at_end(rows, at, s) == Append(rows, s)

\* memmove of the struct array: a row inserted at index at, later rows shifted
InsertAt(rows, at, s) == Sub(rows, 0, at) \o <<s>> \o Sub(rows, at, Len(rows))
\* a row removed at index at, later rows shifted back
RemoveAt(rows, at) == Sub(rows, 0, at) \o Sub(rows, at + 1, Len(rows))

(***************************************************************************)
(* push_operation: a new operation on top of stack.  op->line is a copy of *)
(* line when line is not NULL and line_size > 0 and NULL otherwise; a NULL *)
(* line and an empty one are both <<>> here, and line_size is Len(line).   *)
(***************************************************************************)
push_operation(stack, type, x, y, c, line) ==
    <<[type |-> type, cx |-> x, cy |-> y, c |-> c, line |-> line]>> \o stack

(***************************************************************************)
(* free_operation(op) frees op->line for OP_INSERT_LINE and OP_DELETE_LINE *)
(* only, and then op.  Its value here is TRUE when op->line is a copy that *)
(* is still allocated once op is freed; free_operations_stack is TRUE when *)
(* that is so for an operation of the stack.                               *)
(***************************************************************************)
free_operation(op) ==
    op.type \notin {OP_INSERT_LINE, OP_DELETE_LINE} /\ op.line # <<>>

free_operations_stack(stack) ==
    \E i \in 1 .. Len(stack) : free_operation(stack[i])

(***************************************************************************)
(* editor_insert_row(at, s, len).  Allocation is taken to succeed.         *)
(***************************************************************************)
\* editor_insert_row with an index past the end taken as the end: the row
\* is appended
insert_row_clamped(e, at, s) ==
    IF e.fault THEN e
    ELSE IF at < 0 THEN e
    ELSE [e EXCEPT !.row = InsertAt(e.row, IF at > numrows(e) THEN numrows(e)
                                           ELSE at, s),
                   !.dirty = @ + 1,
                   !.undo_stack = push_operation(@, OP_INSERT_LINE, 0, at, NUL, s),
                   !.leaked = @ \/ free_operations_stack(e.redo_stack),
                   !.redo_stack = <<>>]

editor_insert_row(e, at, s) ==
    IF e.fault THEN e
    ELSE IF at < 0 \/ at > numrows(e) THEN e
    ELSE [e EXCEPT !.row = InsertAt(e.row, at, s),
                   !.dirty = @ + 1,
                   !.undo_stack = push_operation(@, OP_INSERT_LINE, 0, at, NUL, s),
                   !.leaked = @ \/ free_operations_stack(e.redo_stack),
                   !.redo_stack = <<>>]

(***************************************************************************)
(* editor_del_row(at)                                                      *)
(***************************************************************************)
editor_del_row(e, at) ==
    IF e.fault THEN e
    ELSE IF at < 0 \/ at >= numrows(e) THEN e
    ELSE [e EXCEPT !.undo_stack =
                       push_operation(@, OP_DELETE_LINE, 0, at, NUL, Row(e, at)),
                   !.row = RemoveAt(e.row, at),
                   !.dirty = @ + 1,
                   !.leaked = @ \/ free_operations_stack(e.redo_stack),
                   !.redo_stack = <<>>]

(***************************************************************************)
(* editor_insert_char(c).  After the optional row append, row E.cy must    *)
(* exist and E.cx must lie in [0, size]: the memmove and the store go      *)
(* outside the row's characters otherwise.                                 *)
(***************************************************************************)
\* editor_insert_char without the E.dirty++ of line 353
insert_char_dirty_unchanged(e, c) ==
    IF e.fault THEN e
    ELSE
      LET \* e1: E once the row was appended
          Insert(e1) ==
              IF ~ValidRow(e1, e1.cy) \/ e1.cx < 0 \/ e1.cx > RowSize(e1, e1.cy)
              THEN Fault(e1)
              ELSE [e1 EXCEPT
                      !.undo_stack =
                          push_operation(@, OP_INSERT_CHAR, e1.cx, e1.cy, c, <<>>),
                      !.row[e1.cy + 1] =
                          Sub(@, 0, e1.cx) \o <<c>> \o Sub(@, e1.cx, Len(@)),
                      !.cx = @ + 1,
                      !.leaked = @ \/ free_operations_stack(e1.redo_stack),
                      !.redo_stack = <<>>]
      IN Insert(IF e.cy = numrows(e) THEN editor_insert_row(e, numrows(e), <<>>)
                ELSE e)

editor_insert_char(e, c) ==
    IF e.fault THEN e
    ELSE
      LET \* e1: E once the row was appended
          Insert(e1) ==
              IF ~ValidRow(e1, e1.cy) \/ e1.cx < 0 \/ e1.cx > RowSize(e1, e1.cy)
              THEN Fault(e1)
              ELSE [e1 EXCEPT
                      !.undo_stack =
                          push_operation(@, OP_INSERT_CHAR, e1.cx, e1.cy, c, <<>>),
                      !.row[e1.cy + 1] =
                          Sub(@, 0, e1.cx) \o <<c>> \o Sub(@, e1.cx, Len(@)),
                      !.cx = @ + 1, !.dirty = @ + 1,
                      !.leaked = @ \/ free_operations_stack(e1.redo_stack),
                      !.redo_stack = <<>>]
      IN Insert(IF e.cy = numrows(e) THEN editor_insert_row(e, numrows(e), <<>>)
                ELSE e)

(***************************************************************************)
(* editor_insert_newline() without the truncation of the row split: the    *)
(* characters after the cursor are copied to the new row and stay in the   *)
(* old one too.                                                            *)
(***************************************************************************)
insert_newline_no_truncate(e) ==
    IF e.fault THEN e
    ELSE
      LET e0 == [e EXCEPT !.leaked = @ \/ free_operations_stack(e.redo_stack),
                          !.redo_stack = <<>>]
      IN IF numrows(e0) = 0
         THEN LET e1 == editor_insert_row(e0, 0, <<>>)
              IN [e1 EXCEPT !.undo_stack =
                               push_operation(@, OP_NEWLINE, 0, 0, LF, <<>>),
                            !.cy = 0, !.cx = 0, !.dirty = @ + 1]
         ELSE IF ~ValidRow(e0, e0.cy) \/ e0.cx < 0 \/ e0.cx > RowSize(e0, e0.cy)
         THEN Fault(e0)
         ELSE LET r == Row(e0, e0.cy)
                  line_copy == IF e0.cx < Len(r) THEN Sub(r, e0.cx, Len(r))
                               ELSE <<>>
                  e1 == IF e0.cx = 0
                        THEN editor_insert_row(e0, e0.cy, <<>>)
                        ELSE editor_insert_row(e0, e0.cy + 1, Sub(r, e0.cx, Len(r)))
              IN [e1 EXCEPT !.undo_stack =
                               push_operation(@, OP_NEWLINE, e0.cx, e0.cy, LF,
                                              line_copy),
                            !.cy = @ + 1, !.cx = 0, !.dirty = @ + 1]

(***************************************************************************)
(* editor_insert_newline()                                                 *)
(***************************************************************************)
editor_insert_newline(e) ==
    IF e.fault THEN e
    ELSE
      LET e0 == [e EXCEPT !.leaked = @ \/ free_operations_stack(e.redo_stack),
                          !.redo_stack = <<>>]
      IN IF numrows(e0) = 0
         THEN LET e1 == editor_insert_row(e0, 0, <<>>)
              IN [e1 EXCEPT !.undo_stack =
                               push_operation(@, OP_NEWLINE, 0, 0, LF, <<>>),
                            !.cy = 0, !.cx = 0, !.dirty = @ + 1]
         ELSE IF ~ValidRow(e0, e0.cy) \/ e0.cx < 0 \/ e0.cx > RowSize(e0, e0.cy)
         THEN Fault(e0)
         ELSE LET r == Row(e0, e0.cy)
                  \* line_copy: the characters from the cursor to the end
                  line_copy == IF e0.cx < Len(r) THEN Sub(r, e0.cx, Len(r))
                               ELSE <<>>
                  e1 == IF e0.cx = 0
                        THEN editor_insert_row(e0, e0.cy, <<>>)
                        ELSE SetRow(editor_insert_row(e0, e0.cy + 1,
                                                      Sub(r, e0.cx, Len(r))),
                                    e0.cy, Sub(r, 0, e0.cx))
              IN [e1 EXCEPT !.undo_stack =
                               push_operation(@, OP_NEWLINE, e0.cx, e0.cy, LF,
                                              line_copy),
                            !.cy = @ + 1, !.cx = 0, !.dirty = @ + 1]

(***************************************************************************)
(* editor_del_char()                                                       *)
(***************************************************************************)
editor_del_char(e) ==
    IF e.fault THEN e
    ELSE IF e.cy = numrows(e) THEN e
    ELSE IF e.cx = 0 /\ e.cy = 0 THEN e
    ELSE IF ~ValidRow(e, e.cy) \/ e.cx < 0 \/ e.cx > RowSize(e, e.cy)
    THEN Fault(e)
    ELSE
      LET r == Row(e, e.cy)
      IN IF e.cx > 0
         THEN LET e1 == [e EXCEPT !.undo_stack =
                            push_operation(@, OP_DELETE_CHAR, e.cx - 1, e.cy,
                                           r[e.cx], <<>>)]
                  e2 == SetRow(e1, e.cy,
                               Sub(r, 0, e.cx - 1) \o Sub(r, e.cx, Len(r)))
              IN [e2 EXCEPT !.cx = @ - 1, !.dirty = @ + 1,
                            !.leaked = @ \/ free_operations_stack(e.redo_stack),
                            !.redo_stack = <<>>]
         ELSE \* cx = 0, cy > 0: a copy of row cy is inserted at cy - 1 and the
              \* row then at index cy, the former row cy - 1, is deleted
              LET e1 == [e EXCEPT !.cx = RowSize(e, e.cy - 1)]
                  e2 == editor_insert_row(e1, e.cy - 1, r)
                  e3 == editor_del_row(e2, e.cy)
              IN [e3 EXCEPT !.cy = @ - 1,
                            !.leaked = @ \/ free_operations_stack(e3.redo_stack),
                            !.redo_stack = <<>>]

(***************************************************************************)
(* editor_undo().  The inverse is applied at the recorded position for the *)
(* character and line operations and at the current cursor row for         *)
(* OP_NEWLINE; the line operations go through editor_del_row and           *)
(* editor_insert_row, which record an operation and empty the Redo stack   *)
(* themselves.  The copy of op->line that OP_NEWLINE puts back into the    *)
(* operation has the characters op->line had.                              *)
(***************************************************************************)
undo_apply(e, op) ==
    IF op.type = OP_INSERT_CHAR THEN
        LET e1 == [e EXCEPT !.cx = op.cx, !.cy = op.cy]
        IN IF e1.cy < numrows(e1)
           THEN IF e1.cy < 0 \/ e1.cx < 0 THEN Fault(e1)
                ELSE IF e1.cx < RowSize(e1, e1.cy)
                THEN LET r == Row(e1, e1.cy)
                     IN [SetRow(e1, e1.cy,
                                Sub(r, 0, e1.cx) \o Sub(r, e1.cx + 1, Len(r)))
                            EXCEPT !.dirty = @ + 1]
                ELSE e1
           ELSE e1
    ELSE IF op.type = OP_DELETE_CHAR THEN
        LET e1 == [e EXCEPT !.cx = op.cx, !.cy = op.cy]
        IN IF e1.cy < numrows(e1)
           THEN IF e1.cy < 0 \/ e1.cx < 0 \/ e1.cx > RowSize(e1, e1.cy)
                THEN Fault(e1)
                ELSE LET r == Row(e1, e1.cy)
                     IN [SetRow(e1, e1.cy,
                                Sub(r, 0, e1.cx) \o <<op.c>> \o Sub(r, e1.cx, Len(r)))
                            EXCEPT !.dirty = @ + 1]
           ELSE e1
    ELSE IF op.type = OP_INSERT_LINE THEN
        [editor_del_row(e, op.cy) EXCEPT !.cx = 0, !.cy = op.cy]
    ELSE IF op.type = OP_DELETE_LINE THEN
        [editor_insert_row(e, op.cy, op.line) EXCEPT !.cx = 0, !.cy = op.cy]
    ELSE \* OP_NEWLINE
        IF e.cy > 0
        THEN IF ~ValidRow(e, e.cy) THEN Fault(e)
             ELSE LET merged == Row(e, e.cy - 1) \o Row(e, e.cy)
                      e1 == SetRow(e, e.cy - 1, merged)
                      e2 == editor_del_row(e1, e.cy)
                  IN [e2 EXCEPT !.cy = @ - 1, !.cx = op.cx, !.dirty = @ + 1]
        ELSE e

\* editor_undo() without the early return on an empty Undo stack: the cursor
\* goes to the first column as after the undo of a line operation
undo_empty_moves_cursor(e) ==
    IF e.fault THEN e
    ELSE IF e.undo_stack = <<>> THEN [e EXCEPT !.cx = 0]
    ELSE LET op == Head(e.undo_stack)
             Push(e1) ==
                 IF e1.fault THEN e1
                 ELSE [e1 EXCEPT !.redo_stack =
                          push_operation(@, op.type, op.cx, op.cy, op.c, op.line),
                                 !.leaked = @ \/ free_operation(op)]
         IN Push(undo_apply([e EXCEPT !.undo_stack = Tail(@)], op))

editor_undo(e) ==
    IF e.fault THEN e
    ELSE IF e.undo_stack = <<>> THEN e
    ELSE LET op == Head(e.undo_stack)
             Push(e1) ==
                 IF e1.fault THEN e1
                 ELSE [e1 EXCEPT !.redo_stack =
                          push_operation(@, op.type, op.cx, op.cy, op.c, op.line),
                                 !.leaked = @ \/ free_operation(op)]
         IN Push(undo_apply([e EXCEPT !.undo_stack = Tail(@)], op))

(***************************************************************************)
(* editor_redo().  The character operations and OP_NEWLINE go through      *)
(* editor_insert_char, editor_del_char and editor_insert_newline, and the  *)
(* line operations through editor_insert_row and editor_del_row: each      *)
(* records its own operation and empties the Redo stack before the         *)
(* operation popped is pushed back on the Undo stack.                      *)
(***************************************************************************)
redo_apply(e, op) ==
    IF op.type = OP_INSERT_CHAR THEN
        editor_insert_char([e EXCEPT !.cx = op.cx, !.cy = op.cy], op.c)
    ELSE IF op.type = OP_DELETE_CHAR THEN
        editor_del_char([e EXCEPT !.cx = op.cx + 1, !.cy = op.cy])
    ELSE IF op.type = OP_INSERT_LINE THEN
        [editor_insert_row(e, op.cy, op.line) EXCEPT !.cx = 0, !.cy = op.cy]
    ELSE IF op.type = OP_DELETE_LINE THEN
        [editor_del_row(e, op.cy) EXCEPT !.cx = 0, !.cy = op.cy]
    ELSE \* OP_NEWLINE
        IF e.cy < numrows(e)
        THEN LET \* e1: E once editor_insert_newline returned
                 Restore(e1) ==
                     IF e1.fault THEN e1
                     ELSE IF op.line = <<>>
                     THEN [e1 EXCEPT !.cx = e.cx, !.cy = e.cy]
                     ELSE IF ~ValidRow(e1, e1.cy) THEN Fault(e1)
                     ELSE [e1 EXCEPT !.row[e1.cy + 1] = op.line,
                                     !.cx = e.cx, !.cy = e.cy]
             IN Restore(editor_insert_newline(
                            [e EXCEPT !.cx = op.cx, !.cy = op.cy]))
        ELSE e

editor_redo(e) ==
    IF e.fault THEN e
    ELSE IF e.redo_stack = <<>> THEN e
    ELSE LET op == Head(e.redo_stack)
             Push(e1) ==
                 IF e1.fault THEN e1
                 ELSE [e1 EXCEPT !.undo_stack =
                          push_operation(@, op.type, op.cx, op.cy, op.c, op.line),
                                 !.leaked = @ \/ free_operation(op)]
         IN Push(redo_apply([e EXCEPT !.redo_stack = Tail(@)], op))

(***************************************************************************)
(* The selection.                                                          *)
(***************************************************************************)
editor_selection_start(e) ==
    [e EXCEPT !.sel_start_x = e.cx, !.sel_start_y = e.cy,
              !.sel_end_x = e.cx, !.sel_end_y = e.cy, !.selecting = TRUE]

\* editor_selection_update without the test of E.selecting
selection_update_unarmed(e) ==
    [e EXCEPT !.sel_end_x = e.cx, !.sel_end_y = e.cy]

editor_selection_update(e) ==
    IF e.selecting THEN [e EXCEPT !.sel_end_x = e.cx, !.sel_end_y = e.cy]
    ELSE e

\* editor_selection_clear resetting the flag only: the four endpoints keep
\* their values
selection_clear_flag_only(e) == [e EXCEPT !.selecting = FALSE]

editor_selection_clear(e) ==
    [e EXCEPT !.sel_start_x = -1, !.sel_start_y = -1,
              !.sel_end_x = -1, !.sel_end_y = -1, !.selecting = FALSE]

\* editor_selection_normalize comparing the rows only: two endpoints on one
\* row are never swapped
selection_normalize_rows_only(e) ==
    IF e.sel_end_y < e.sel_start_y
    THEN [e EXCEPT !.sel_start_x = e.sel_end_x, !.sel_start_y = e.sel_end_y,
                   !.sel_end_x = e.sel_start_x, !.sel_end_y = e.sel_start_y]
    ELSE e

editor_selection_normalize(e) ==
    IF e.sel_end_y < e.sel_start_y
       \/ (e.sel_end_y = e.sel_start_y /\ e.sel_end_x < e.sel_start_x)
    THEN [e EXCEPT !.sel_start_x = e.sel_end_x, !.sel_start_y = e.sel_end_y,
                   !.sel_end_x = e.sel_start_x, !.sel_end_y = e.sel_start_y]
    ELSE e

\* is_position_selected with the end column counted in: "x > end_x" in
\* place of "x >= end_x"
is_position_selected_closed(e, x, y) ==
    IF ~e.selecting \/ e.sel_start_x = -1 THEN FALSE
    ELSE LET n == editor_selection_normalize(e)
         IN ~(y < n.sel_start_y \/ y > n.sel_end_y)
            /\ ~(y = n.sel_start_y /\ x < n.sel_start_x)
            /\ ~(y = n.sel_end_y /\ x > n.sel_end_x)

is_position_selected(e, x, y) ==
    IF ~e.selecting \/ e.sel_start_x = -1 THEN FALSE
    ELSE LET n == editor_selection_normalize(e)
         IN ~(y < n.sel_start_y \/ y > n.sel_end_y)
            /\ ~(y = n.sel_start_y /\ x < n.sel_start_x)
            /\ ~(y = n.sel_end_y /\ x >= n.sel_end_x)

(***************************************************************************)
(* editor_copy_selection().  Line i of a multi-row selection is copied     *)
(* while row sel_start_y + i exists; the slots after the break stay as     *)
(* malloc left them.  A clipped range outside the row's characters is a    *)
(* read outside the row.  free(E.clipboard) frees the array of the         *)
(* previous copy and none of its lines.                                    *)
(***************************************************************************)
\* line i of the selection copied without the clipping at the selection's
\* end: the characters up to the end of the row
copy_line_unclipped(e, i, num_lines) ==
    LET y == e.sel_start_y + i
        start == IF i = 0 THEN e.sel_start_x ELSE 0
    IN Sub(Row(e, y), start, RowSize(e, y))

CopyLine(e, i, num_lines) ==
    LET y == e.sel_start_y + i
        start == IF i = 0 THEN e.sel_start_x ELSE 0
        end == IF i = num_lines - 1 THEN e.sel_end_x ELSE RowSize(e, y)
    IN Sub(Row(e, y), start, end)

CopyLineInRow(e, i, num_lines) ==
    LET y == e.sel_start_y + i
        start == IF i = 0 THEN e.sel_start_x ELSE 0
        end == IF i = num_lines - 1 THEN e.sel_end_x ELSE RowSize(e, y)
    IN 0 <= start /\ start <= end /\ end <= RowSize(e, y)

editor_copy_selection(e) ==
    IF e.fault THEN e
    ELSE IF e.sel_start_x = -1 \/ e.sel_start_y = -1
            \/ e.sel_end_x = -1 \/ e.sel_end_y = -1 THEN e
    ELSE
      LET \* n: E once the selection is normalized
          CopyRange(n, num_lines) ==
              IF num_lines <= 0 THEN [n EXCEPT !.clipboard = <<>>]
              ELSE IF num_lines = 1
              THEN IF ~ValidRow(n, n.sel_start_y) \/ ~CopyLineInRow(n, 0, 1)
                   THEN Fault(n)
                   ELSE [n EXCEPT !.clipboard = <<CopyLine(n, 0, 1)>>]
              ELSE IF n.sel_start_y < 0 THEN Fault(n)
              ELSE IF \E i \in 0 .. num_lines - 1 :
                         ValidRow(n, n.sel_start_y + i)
                         /\ ~CopyLineInRow(n, i, num_lines)
              THEN Fault(n)
              ELSE [n EXCEPT !.clipboard =
                       [i \in 1 .. num_lines |->
                           IF ValidRow(n, n.sel_start_y + i - 1)
                           THEN CopyLine(n, i - 1, num_lines)
                           ELSE Uninit]]
          Lines(n) == CopyRange(n, n.sel_end_y - n.sel_start_y + 1)
          \* n once the previous clipboard is freed
          Freed(n) ==
              [n EXCEPT !.leaked =
                  @ \/ \E i \in 1 .. Len(n.clipboard) : n.clipboard[i] # Uninit]
      IN Lines(Freed(editor_selection_normalize(e)))

(***************************************************************************)
(* editor_paste(): editor_insert_char per character and                    *)
(* editor_insert_newline between two lines of the clipboard.               *)
(***************************************************************************)
RECURSIVE InsertChars(_, _)
InsertChars(e, line) ==
    IF line = <<>> THEN e
    ELSE InsertChars(editor_insert_char(e, Head(line)), Tail(line))

RECURSIVE PasteLines(_, _)
PasteLines(e, lines) ==
    IF e.fault \/ lines = <<>> THEN e
    ELSE IF Head(lines) = Uninit THEN Fault(e)
    ELSE IF Len(lines) > 1
    THEN PasteLines(editor_insert_newline(InsertChars(e, Head(lines))),
                    Tail(lines))
    ELSE InsertChars(e, Head(lines))

editor_paste(e) ==
    IF e.fault THEN e
    ELSE IF e.clipboard = <<>> THEN e
    ELSE PasteLines(e, e.clipboard)

editor_select_all(e) ==
    IF numrows(e) > 0
    THEN [e EXCEPT !.sel_start_x = 0, !.sel_start_y = 0,
                   !.sel_end_y = numrows(e) - 1,
                   !.sel_end_x = RowSize(e, numrows(e) - 1),
                   !.selecting = TRUE]
    ELSE e

(***************************************************************************)
(* Files.  The disk holds the bytes of one file, the one named FileName;   *)
(* any other name, and FileName while disk = NoFile, cannot be opened.     *)
(* getline() returns the bytes up to and including the next LF, or the     *)
(* rest of the file; editor_open drops the LF and CR that end a line.      *)
(***************************************************************************)
RECURSIVE FirstLF(_, _)
FirstLF(bytes, i) ==
    IF i > Len(bytes) THEN Len(bytes)
    ELSE IF bytes[i] = LF THEN i
    ELSE FirstLF(bytes, i + 1)

RECURSIVE GetLines(_)
GetLines(bytes) ==
    IF bytes = <<>> THEN <<>>
    ELSE LET n == FirstLF(bytes, 1)
         IN <<SubSeq(bytes, 1, n)>> \o GetLines(SubSeq(bytes, n + 1, Len(bytes)))

\* the line as getline returned it, terminator and all
keep_eol(line) == line

RECURSIVE StripEOL(_)
StripEOL(line) ==
    IF line # <<>> /\ line[Len(line)] \in {LF, CR}
    THEN StripEOL(SubSeq(line, 1, Len(line) - 1))
    ELSE line

\* a newline between the rows and none after the last one
RECURSIVE write_rows_joined(_)
write_rows_joined(rows) ==
    IF rows = <<>> THEN <<>>
    ELSE IF Len(rows) = 1 THEN Head(rows)
    ELSE Head(rows) \o <<LF>> \o write_rows_joined(Tail(rows))

RECURSIVE WriteRows(_)
WriteRows(rows) ==
    IF rows = <<>> THEN <<>>
    ELSE Head(rows) \o <<LF>> \o WriteRows(Tail(rows))

RECURSIVE AppendRows(_, _)
AppendRows(e, lines) ==
    IF lines = <<>> THEN e
    ELSE AppendRows(editor_insert_row(e, numrows(e), StripEOL(Head(lines))),
                    Tail(lines))

(***************************************************************************)
(* editor_open(filename).  When fopen fails the function returns right    *)
(* after setting E.filename.                                               *)
(***************************************************************************)
editor_open(e, name) ==
    IF e.fault THEN e
    ELSE LET e1 == [e EXCEPT !.filename = name]
             \* e2: E once the lines of the file are appended
             Loaded(e2) ==
                 [e2 EXCEPT !.dirty = 0,
                            !.leaked = @ \/ free_operations_stack(e2.undo_stack)
                                         \/ free_operations_stack(e2.redo_stack),
                            !.undo_stack = <<>>, !.redo_stack = <<>>]
         IN IF name # FileName \/ e.disk = NoFile THEN e1
            ELSE Loaded(AppendRows(e1, GetLines(e.disk)))

(***************************************************************************)
(* editor_save().  writable: fopen(E.filename, "w") succeeds on the file   *)
(* named FileName.  The only other name a command line gives is one that   *)
(* fopen never opens, for reading (editor_open) or for writing.            *)
(***************************************************************************)
\* the save taken to succeed whatever fopen returned
save_unchecked(e, writable) == TRUE

save_ok(e, writable) == e.filename # NoName /\ e.filename = FileName /\ writable

editor_save(e, writable) ==
    IF e.fault THEN e
    ELSE IF ~save_ok(e, writable) THEN e
    ELSE [e EXCEPT !.disk = WriteRows(e.row), !.dirty = 0]

(***************************************************************************)
(* editor_cleanup() followed by exit(): the lines of the clipboard are     *)
(* freed, a slot that was never assigned included, and both stacks go      *)
(* through free_operations_stack.  The rows are left as they were, for     *)
(* nothing reads them any more.                                            *)
(***************************************************************************)
editor_cleanup(e) ==
    LET e1 == [e EXCEPT !.running = FALSE,
                        !.leaked = @ \/ free_operations_stack(e.undo_stack)
                                     \/ free_operations_stack(e.redo_stack)]
    IN IF \E i \in 1 .. Len(e.clipboard) : e.clipboard[i] = Uninit
       THEN Fault(e1)
       ELSE e1

(***************************************************************************)
(* The command line.  CStr(buf) is the C string in E.commandbuf once       *)
(* E.commandbuf[E.commandlen] = 0 is stored.                               *)
(***************************************************************************)
RECURSIVE CStr(_)
CStr(buf) ==
    IF buf = <<>> \/ Head(buf) = NUL THEN <<>>
    ELSE <<Head(buf)>> \o CStr(Tail(buf))

IsBlank(ch) == ch \in {" ", "\t"}

RECURSIVE SkipBlanks(_)
SkipBlanks(s) ==
    IF s # <<>> /\ IsBlank(Head(s)) THEN SkipBlanks(Tail(s)) ELSE s

RECURSIVE SkipColons(_)
SkipColons(s) ==
    IF s # <<>> /\ Head(s) = ":" THEN SkipColons(Tail(s)) ELSE s

RECURSIVE TrimRight(_)
TrimRight(s) ==
    IF Len(s) > 1 /\ (IsBlank(s[Len(s)]) \/ s[Len(s)] \in {LF, CR})
    THEN TrimRight(SubSeq(s, 1, Len(s) - 1))
    ELSE s

\* process_command_prefix: the command with exactly one leading colon and no
\* blanks around it; <<>> stands for the return value 0
process_command_prefix(s) ==
    LET s1 == SkipBlanks(s)
        rest == SkipColons(s1)
    IN IF s = <<>> \/ rest = <<>> THEN <<>>
       ELSE LET s3 == <<":">> \o SkipBlanks(rest)
            IN IF Len(s3) > 1 THEN s3 ELSE <<>>

Pad(s, n) == s \o [i \in 1 .. (n - Len(s)) |-> NUL]

(***************************************************************************)
(* editor_process_command().  command_valid is its return value: 1 unless  *)
(* process_command_prefix returned 0 (exit() does not return).             *)
(***************************************************************************)
command_valid(e) == process_command_prefix(CStr(e.commandbuf)) # <<>>

ClearRows(e) ==
    LET RECURSIVE Del(_, _)
        Del(s, i) == IF i < 0 THEN s ELSE Del(editor_del_row(s, i), i - 1)
    IN Del(e, numrows(e) - 1)

editor_process_command(e, writable) ==
    IF e.fault \/ ~command_valid(e) THEN e
    ELSE
      LET quit(s) == editor_cleanup(s)
          \* cmd: the command; e0: E with the command stored in E.commandbuf
          Run(cmd, e0) ==
              IF cmd \in {<<":", "q">>, <<":", "q", "u", "i", "t">>}
              THEN IF e0.dirty # 0 THEN e0 ELSE quit(e0)
              ELSE IF cmd \in {<<":", "q", "!">>, <<":", "q", "u", "i", "t", "!">>}
              THEN quit(e0)
              ELSE IF cmd = <<":", "w">>
              THEN editor_save(e0, writable)
              ELSE IF cmd \in {<<":", "w", "q">>, <<":", "s", "q">>}
              THEN IF save_ok(e0, writable)
                   THEN quit(editor_save(e0, writable))
                   ELSE e0
              ELSE IF Len(cmd) >= 3 /\ SubSeq(cmd, 1, 3) = <<":", "e", " ">>
              THEN IF e0.dirty # 0 THEN e0
                   ELSE editor_open(ClearRows(e0), Sub(cmd, 3, Len(cmd)))
              ELSE IF Len(cmd) >= 4 /\ SubSeq(cmd, 1, 4) = <<":", "e", "!", " ">>
              THEN editor_open(ClearRows(e0), Sub(cmd, 4, Len(cmd)))
              ELSE e0
          Trimmed(norm, cmd) == Run(cmd, [e EXCEPT !.commandbuf = Pad(cmd, Len(norm))])
          Normalized(norm) == Trimmed(norm, TrimRight(norm))
      IN Normalized(process_command_prefix(CStr(e.commandbuf)))

(***************************************************************************)
(* editor_scroll() and the part of editor_refresh_screen() that changes E. *)
(* rows is what getmaxyx reports.                                          *)
(***************************************************************************)
editor_scroll(e) ==
    LET r1 == IF e.cy < e.rowoff THEN e.cy ELSE e.rowoff
        r2 == IF e.cy >= r1 + e.screenrows THEN e.cy - e.screenrows + 1 ELSE r1
    IN [e EXCEPT !.rowoff = IF r2 < 0 THEN 0 ELSE r2]

editor_refresh_screen(e, rows) ==
    editor_scroll(
        IF rows # e.screenrows + 2
        THEN [e EXCEPT !.screenrows = IF rows < 3 THEN 1 ELSE rows - 2]
        ELSE e)

(***************************************************************************)
(* Keys.  A key is the name of what getch() returns.                       *)
(***************************************************************************)
ERR == "ERR"                  \* getch() timed out
ESC == "ESC"                  \* 27
ENTER == "ENTER"              \* '\r' or KEY_ENTER
BACKSPACE == "BACKSPACE"      \* KEY_BACKSPACE or 127
CTRL_A == "CTRL_A"
CTRL_C == "CTRL_C"
CTRL_K == "CTRL_K"
CTRL_Q == "CTRL_Q"
CTRL_V == "CTRL_V"
CTRL_Y == "CTRL_Y"
CTRL_Z == "CTRL_Z"
KEY_LEFT == "KEY_LEFT"
KEY_RIGHT == "KEY_RIGHT"
KEY_UP == "KEY_UP"
KEY_DOWN == "KEY_DOWN"
KEY_HOME == "KEY_HOME"
KEY_END == "KEY_END"
KEY_PPAGE == "KEY_PPAGE"
KEY_NPAGE == "KEY_NPAGE"
KEY_RESIZE == "KEY_RESIZE"

LetterMoves == {"h", "j", "k", "l", "0", "$"}
KeypadMoves == {KEY_LEFT, KEY_RIGHT, KEY_UP, KEY_DOWN, KEY_HOME, KEY_END,
                KEY_PPAGE, KEY_NPAGE}

(***************************************************************************)
(* editor_move_cursor(key)                                                 *)
(***************************************************************************)
Min(a, b) == IF a < b THEN a ELSE b
Max(a, b) == IF a > b THEN a ELSE b

\* "if (E.cx > E.row[E.cy].size) E.cx = E.row[E.cy].size" for the row s.cy
ClampCx(s) ==
    IF ~ValidRow(s, s.cy) THEN Fault(s)
    ELSE IF s.cx > RowSize(s, s.cy) THEN [s EXCEPT !.cx = RowSize(s, s.cy)]
    ELSE s

move_cursor(e, key) ==
    LET has_row == ~(e.cy >= numrows(e))      \* row # NULL
    IN
    IF key \in {KEY_LEFT, "h"} THEN
        IF e.cx > 0 THEN [e EXCEPT !.cx = @ - 1]
        ELSE IF e.cy > 0
        THEN IF ~ValidRow(e, e.cy - 1) THEN Fault(e)
             ELSE [e EXCEPT !.cy = @ - 1, !.cx = RowSize(e, e.cy - 1)]
        ELSE e
    ELSE IF key \in {KEY_RIGHT, "l"} THEN
        IF ~has_row THEN e
        ELSE IF e.cy < 0 THEN Fault(e)
        ELSE IF e.cx < RowSize(e, e.cy) THEN [e EXCEPT !.cx = @ + 1]
        ELSE IF e.cx = RowSize(e, e.cy) /\ e.cy < numrows(e) - 1
        THEN [e EXCEPT !.cy = @ + 1, !.cx = 0]
        ELSE e
    ELSE IF key \in {KEY_UP, "k"} THEN
        IF e.cy > 0 THEN ClampCx([e EXCEPT !.cy = @ - 1]) ELSE e
    ELSE IF key \in {KEY_DOWN, "j"} THEN
        IF e.cy < numrows(e) - 1 THEN ClampCx([e EXCEPT !.cy = @ + 1]) ELSE e
    ELSE IF key \in {KEY_HOME, "0"} THEN
        [e EXCEPT !.cx = 0]
    ELSE IF key \in {KEY_END, "$"} THEN
        IF ~has_row THEN e
        ELSE IF e.cy < 0 THEN Fault(e)
        ELSE [e EXCEPT !.cx = RowSize(e, e.cy)]
    ELSE IF key = KEY_PPAGE THEN
        \* cy = rowoff, then screenrows times "if (cy > 0) cy--"
        LET y == IF e.rowoff > 0 THEN Max(e.rowoff - Max(e.screenrows, 0), 0)
                 ELSE e.rowoff
            e1 == [e EXCEPT !.cy = y]
        IN IF y < numrows(e) THEN ClampCx(e1) ELSE e1
    ELSE IF key = KEY_NPAGE THEN
        \* cy = rowoff + screenrows - 1, capped at numrows - 1, then
        \* screenrows times "if (cy < numrows - 1) cy++"
        LET y0 == Min(e.rowoff + e.screenrows - 1, numrows(e) - 1)
            y == IF y0 < numrows(e) - 1
                 THEN Min(y0 + Max(e.screenrows, 0), numrows(e) - 1)
                 ELSE y0
            e1 == [e EXCEPT !.cy = y]
        IN IF y < numrows(e) THEN ClampCx(e1) ELSE e1
    ELSE e

editor_move_cursor(e, key) ==
    IF e.fault THEN e
    ELSE LET Moved(e1) ==
                 IF e1.fault THEN e1
                 ELSE IF e1.mode = MODE_SELECTION THEN editor_selection_update(e1)
                 ELSE e1
         IN Moved(move_cursor(e, key))

(***************************************************************************)
(* editor_process_keypress(), one branch per operator.                     *)
(***************************************************************************)
\* the characters the model types: all are printable ASCII (32 .. 126)
CommandChars == {"w", "q", "e", "!", " ", "f", "z"}
Printable == Chars \cup LetterMoves \cup CommandChars \cup {"x", "v", "y", "d", ":"}

\* leaving a mode without the test of the mode left: the cursor moves one
\* column left whatever the mode was
leave_mode_any_mode(e) ==
    LET e1 == [e EXCEPT !.mode = MODE_NORMAL,
                        !.cx = IF e.cx > 0 /\ numrows(e) > 0 THEN @ - 1 ELSE @,
                        !.commandbuf = <<>>]
    IN editor_selection_clear(e1)

\* ESC in a mode other than MODE_NORMAL, and Ctrl-C in MODE_INSERT
leave_mode(e) ==
    LET e1 == [e EXCEPT !.mode = MODE_NORMAL,
                        !.cx = IF e.mode = MODE_INSERT /\ e.cx > 0 /\ numrows(e) > 0
                               THEN @ - 1 ELSE @,
                        !.commandbuf = <<>>]
    IN editor_selection_clear(e1)

\* MODE_NORMAL, case 'x'
normal_x(e) ==
    IF ~ValidRow(e, e.cy) \/ e.cx < 0 THEN Fault(e)
    ELSE IF e.cx < RowSize(e, e.cy)
    THEN LET \* e1: E once editor_insert_char returned
             Remove(e1) ==
                 IF e1.fault THEN e1
                 ELSE [e1 EXCEPT !.row[e1.cy + 1] =
                                     Sub(@, 0, e1.cx) \o Sub(@, e1.cx + 1, Len(@)),
                                 !.dirty = @ + 1]
         IN Remove(editor_insert_char(e, Row(e, e.cy)[e.cx + 1]))
    ELSE e

\* MODE_NORMAL with a case 'c' that never calls ungetch(): the second key
\* read is dropped
key_normal_no_ungetch(e, c, next_c) ==
    IF c = "c" THEN
        [e EXCEPT !.mode = IF next_c = "c" THEN MODE_INSERT ELSE @]
    ELSE IF c = ":" THEN [e EXCEPT !.mode = MODE_COMMAND, !.commandbuf = <<":">>]
    ELSE IF c = "x" THEN normal_x(e)
    ELSE IF c = CTRL_A THEN [editor_select_all(e) EXCEPT !.mode = MODE_SELECTION]
    ELSE IF c = CTRL_Z THEN editor_undo(e)
    ELSE IF c = CTRL_Y THEN editor_redo(e)
    ELSE IF c = "v" THEN editor_selection_start([e EXCEPT !.mode = MODE_SELECTION])
    ELSE IF c \in LetterMoves \cup KeypadMoves THEN editor_move_cursor(e, c)
    ELSE IF c = ENTER THEN [e EXCEPT !.mode = MODE_INSERT]
    ELSE e

\* MODE_NORMAL; next_c is what the second getch() of case 'c' returns
key_normal(e, c, next_c) ==
    IF c = "c" THEN
        [e EXCEPT !.mode = IF next_c = "c" THEN MODE_INSERT ELSE @,
                  !.ungot = IF next_c # ERR THEN next_c ELSE @]
    ELSE IF c = ":" THEN [e EXCEPT !.mode = MODE_COMMAND, !.commandbuf = <<":">>]
    ELSE IF c = "x" THEN normal_x(e)
    ELSE IF c = CTRL_A THEN [editor_select_all(e) EXCEPT !.mode = MODE_SELECTION]
    ELSE IF c = CTRL_Z THEN editor_undo(e)
    ELSE IF c = CTRL_Y THEN editor_redo(e)
    ELSE IF c = "v" THEN editor_selection_start([e EXCEPT !.mode = MODE_SELECTION])
    ELSE IF c \in LetterMoves \cup KeypadMoves THEN editor_move_cursor(e, c)
    ELSE IF c = ENTER THEN [e EXCEPT !.mode = MODE_INSERT]
    ELSE e

\* MODE_INSERT
key_insert(e, c) ==
    IF c = CTRL_C THEN leave_mode(e)
    ELSE IF c = BACKSPACE
    THEN IF e.cx > 0 \/ e.cy > 0 THEN editor_del_char(e) ELSE e
    ELSE IF c \in KeypadMoves THEN editor_move_cursor(e, c)
    ELSE IF c = CTRL_Z THEN editor_undo(e)
    ELSE IF c = CTRL_Y THEN editor_redo(e)
    ELSE IF c = ENTER THEN editor_insert_newline(e)
    ELSE IF c \in Printable THEN editor_insert_char(e, c)
    ELSE e

\* MODE_COMMAND
key_command(e, c, writable) ==
    IF c = ":" THEN [e EXCEPT !.commandbuf = <<>>]
    ELSE IF c = ENTER
    THEN IF Len(e.commandbuf) > 0 /\ command_valid(e)
         THEN editor_process_command(e, writable)
         ELSE [e EXCEPT !.mode = MODE_NORMAL, !.commandbuf = <<>>]
    ELSE IF c = BACKSPACE
    THEN IF Len(e.commandbuf) > 0
         THEN [e EXCEPT !.commandbuf = SubSeq(@, 1, Len(@) - 1)]
         ELSE e
    ELSE IF c \in Printable /\ Len(e.commandbuf) < 255
    THEN [e EXCEPT !.commandbuf = Append(@, c)]
    ELSE e

\* MODE_SELECTION, case 'd', without the copy of the last row's remainder to
\* the first row of a multi-row selection
selection_delete_no_tail(e) ==
    LET Delete(e1, sx, sy, ex, ey) ==
            LET RECURSIVE DelRows(_, _)
                DelRows(s, i) ==
                    IF i > sy THEN DelRows(editor_del_row(s, i), i - 1) ELSE s
                done(s) == editor_selection_clear(
                               [s EXCEPT !.cx = sx, !.cy = sy, !.dirty = @ + 1,
                                         !.mode = MODE_NORMAL])
            IN IF e1.fault THEN e1
               ELSE IF sy = ey
               THEN IF ~ValidRow(e1, sy) \/ sx < 0 \/ ex > RowSize(e1, sy)
                    THEN Fault(e1)
                    ELSE done([e1 EXCEPT !.row[sy + 1] =
                                             Sub(@, 0, sx) \o Sub(@, ex, Len(@))])
               ELSE IF ~ValidRow(e1, sy) \/ ~ValidRow(e1, ey) \/ sx < 0 \/ ex < 0
                       \/ sx > RowSize(e1, sy) \/ ex > RowSize(e1, ey)
               THEN Fault(e1)
               ELSE done(DelRows([e1 EXCEPT !.row[sy + 1] = Sub(@, 0, sx)], ey))
        Selected(e1) ==
            Delete(e1, e1.sel_start_x, e1.sel_start_y, e1.sel_end_x, e1.sel_end_y)
    IN Selected(editor_selection_normalize(editor_copy_selection(e)))

\* MODE_SELECTION, case 'd'
selection_delete(e) ==
    LET \* e1: E once the selection is copied and normalized
        Delete(e1, sx, sy, ex, ey) ==
            LET RECURSIVE DelRows(_, _)
                DelRows(s, i) ==
                    IF i > sy THEN DelRows(editor_del_row(s, i), i - 1) ELSE s
                done(s) == editor_selection_clear(
                               [s EXCEPT !.cx = sx, !.cy = sy, !.dirty = @ + 1,
                                         !.mode = MODE_NORMAL])
            IN IF e1.fault THEN e1
               ELSE IF sy = ey
               THEN IF ~ValidRow(e1, sy) \/ sx < 0 \/ ex > RowSize(e1, sy)
                    THEN Fault(e1)
                    ELSE done([e1 EXCEPT !.row[sy + 1] =
                                             Sub(@, 0, sx) \o Sub(@, ex, Len(@))])
               ELSE IF ~ValidRow(e1, sy) \/ ~ValidRow(e1, ey) \/ sx < 0 \/ ex < 0
                       \/ sx > RowSize(e1, sy) \/ ex > RowSize(e1, ey)
               THEN Fault(e1)
               ELSE done(DelRows(
                        [e1 EXCEPT !.row[sy + 1] =
                            Sub(@, 0, sx) \o Sub(Row(e1, ey), ex, RowSize(e1, ey))],
                        ey))
        Selected(e1) ==
            Delete(e1, e1.sel_start_x, e1.sel_start_y, e1.sel_end_x, e1.sel_end_y)
    IN Selected(editor_selection_normalize(editor_copy_selection(e)))

key_selection(e, c) ==
    LET Yanked(e1) ==
            IF e1.fault THEN e1
            ELSE editor_selection_clear([e1 EXCEPT !.mode = MODE_NORMAL])
        Moved(e1) == IF e1.fault THEN e1 ELSE editor_selection_update(e1)
    IN IF c = "y" THEN Yanked(editor_copy_selection(e))
       ELSE IF c = "d" THEN selection_delete(e)
       ELSE IF c \in LetterMoves \cup KeypadMoves
       THEN Moved(editor_move_cursor(e, c))
       ELSE e

\* editor_process_keypress without the switch on E.mode: a key that is not
\* handled before the switch is handled by the cases of MODE_NORMAL
process_keypress_mode_ignored(e, c, next_c, writable) ==
    IF c = CTRL_Q THEN editor_cleanup(e)
    ELSE IF c = CTRL_K /\ e.sel_start_x # -1
    THEN LET Copied(e1) ==
                 IF e1.fault THEN e1
                 ELSE IF e1.mode = MODE_SELECTION
                 THEN [editor_selection_clear(e1) EXCEPT !.mode = MODE_NORMAL]
                 ELSE e1
         IN Copied(editor_copy_selection(e))
    ELSE IF c = CTRL_V THEN editor_paste(e)
    ELSE IF c = ESC
    THEN IF e.mode # MODE_NORMAL THEN leave_mode(e) ELSE e
    ELSE key_normal(e, c, next_c)

editor_process_keypress(e, c, next_c, writable) ==
    IF c = CTRL_Q THEN editor_cleanup(e)
    ELSE IF c = CTRL_K /\ e.sel_start_x # -1
    THEN LET Copied(e1) ==
                 IF e1.fault THEN e1
                 ELSE IF e1.mode = MODE_SELECTION
                 THEN [editor_selection_clear(e1) EXCEPT !.mode = MODE_NORMAL]
                 ELSE e1
         IN Copied(editor_copy_selection(e))
    ELSE IF c = CTRL_V THEN editor_paste(e)
    ELSE IF c = ESC
    THEN IF e.mode # MODE_NORMAL THEN leave_mode(e) ELSE e
    ELSE IF e.mode = MODE_NORMAL THEN key_normal(e, c, next_c)
    ELSE IF e.mode = MODE_INSERT THEN key_insert(e, c)
    ELSE IF e.mode = MODE_COMMAND THEN key_command(e, c, writable)
    ELSE key_selection(e, c)

(***************************************************************************)
(* The resize handling at the end of an iteration of main's loop; rows is  *)
(* the ws_row ioctl reports, which getmaxyx reports too after the refresh. *)
(* The terminal is taken to be MinScreenCols wide.                         *)
(***************************************************************************)
MinScreenCols == 20
MinScreenRows == 3

handle_resize(e, rows) ==
    IF e.fault \/ ~e.running THEN e
    ELSE IF rows # e.screenrows + 2
    THEN LET \* e2: E once editor_refresh_screen returned
             Clamp(e2) ==
                 [e2 EXCEPT !.cx = IF @ > MinScreenCols - 1
                                   THEN MinScreenCols - 1 ELSE @,
                            !.cy = IF @ > e2.screenrows - 1
                                   THEN e2.screenrows - 1 ELSE @]
         IN Clamp(editor_refresh_screen(
                      [e EXCEPT !.screenrows = Max(rows, MinScreenRows) - 2],
                      rows))
    ELSE e

(***************************************************************************)
(* One iteration of the loop of main: the screen is refreshed for a        *)
(* terminal of rows_before rows, one key is processed (the key pushed back *)
(* first), and the resize check sees a terminal of rows_after rows.        *)
(***************************************************************************)
main_loop(e, rows_before, c, next_c, writable, rows_after) ==
    LET e1 == editor_refresh_screen(e, rows_before)
        e2 == editor_process_keypress([e1 EXCEPT !.ungot = NoKey], c, next_c,
                                      writable)
    IN handle_resize(e2, rows_after)

(***************************************************************************)
(* init_editor() for a terminal of rows rows, and main up to its loop.     *)
(***************************************************************************)
init_editor(rows, bytes) ==
    [row |-> <<>>, cx |-> 0, cy |-> 0, rowoff |-> 0,
     screenrows |-> LET r == IF rows < 3 THEN 1 ELSE rows - 2
                    IN IF r < 3 THEN 3 ELSE r,
     dirty |-> 0, filename |-> NoName, mode |-> MODE_NORMAL,
     clipboard |-> <<>>, commandbuf |-> <<>>,
     sel_start_x |-> -1, sel_start_y |-> -1, sel_end_x |-> -1, sel_end_y |-> -1,
     selecting |-> FALSE, undo_stack |-> <<>>, redo_stack |-> <<>>,
     ungot |-> NoKey, disk |-> bytes, running |-> TRUE, fault |-> FALSE,
     leaked |-> FALSE]

\* main(argc, argv) with no argument or with the one argument FileName
main_start(rows, bytes, with_file) ==
    IF with_file THEN editor_open(init_editor(rows, bytes), FileName)
    ELSE init_editor(rows, bytes)

(***************************************************************************)
(* The inputs of the model.                                                *)
(***************************************************************************)
TermRows == {3, 24}
\* the file at start: absent, empty, one or two newline-terminated lines, a
\* CRLF line, and a last line with no terminator
DiskContents ==
    {NoFile, <<>>, <<"a", "c", LF>>, <<"a", LF, LF>>, <<"a", "c", LF, "c", LF>>,
     <<"a", CR, LF>>, <<"c", LF, "a">>}
\* the second key of the "cc" lookahead
LookaheadKeys == {"c", "x", "l", ESC, ERR}
\* the command lines typed
CommandTexts == {<<":", "w">>, <<":", "q">>, <<":", "q", "!">>, <<":", "w", "q">>,
                 <<":", "e", " ", "f">>, <<":", "e", "!", " ", "f">>,
                 <<":", "e", " ", "z">>, <<":", "z">>, <<"w">>}
CommandPrefixes == UNION {{SubSeq(t, 1, k) : k \in 0 .. Len(t)} : t \in CommandTexts}

Bounded(n) ==
    /\ Len(n.row) <= MaxRows
    /\ \A i \in 1 .. Len(n.row) : Len(n.row[i]) <= MaxLen
    /\ Len(n.undo_stack) <= MaxOps
    /\ Len(n.redo_stack) <= MaxOps
    /\ n.dirty <= MaxDirty

\* main starts on a terminal of one of the heights, with one of the files
\* on disk, and with or without the file's name as its argument
Start(heights, files, args) ==
    \E rows \in heights, bytes \in files, with_file \in args :
        /\ Commit0(main_start(rows, bytes, with_file))
        /\ ws_row = rows

(***************************************************************************)
(* The actions: one iteration of the loop per key read.                    *)
(***************************************************************************)
\* the state becomes n, when n is within the bounds of the model
Step(n) == Bounded(n) /\ Commit(n)

Press(c, next_c, writable) ==
    /\ running /\ ~fault
    /\ ungot \in {NoKey, c}
    /\ Step(main_loop(E, ws_row, c, next_c, writable, ws_row))
    /\ UNCHANGED ws_row

Key(c) == Press(c, ERR, TRUE)

\* the keys handled before the mode is looked at
Quit == running /\ Key(CTRL_Q)
Copy == sel_start_x # -1 /\ Key(CTRL_K)
Paste == clipboard # <<>> /\ Key(CTRL_V)
Escape == mode # MODE_NORMAL /\ Key(ESC)
\* getch() timed out
Idle == ungot = NoKey /\ Key(ERR)

\* MODE_NORMAL and MODE_INSERT handle Ctrl-Z and Ctrl-Y
Undo == mode \in {MODE_NORMAL, MODE_INSERT} /\ Key(CTRL_Z)
Redo == mode \in {MODE_NORMAL, MODE_INSERT} /\ Key(CTRL_Y)

InsertTrigger == mode = MODE_NORMAL /\ \E next_c \in LookaheadKeys : Press("c", next_c, TRUE)
EnterInsert == mode = MODE_NORMAL /\ Key(ENTER)
EnterCommand == mode = MODE_NORMAL /\ Key(":")
EnterSelection == mode = MODE_NORMAL /\ Key("v")
SelectAll == mode = MODE_NORMAL /\ Key(CTRL_A)
DeleteUnderCursor == mode = MODE_NORMAL /\ Key("x")
Move ==
    /\ mode \in {MODE_NORMAL, MODE_SELECTION}
    /\ \E c \in LetterMoves \cup {KEY_PPAGE, KEY_NPAGE} : Key(c)

TypeChar == mode = MODE_INSERT /\ \E c \in Chars : Key(c)
Backspace == mode = MODE_INSERT /\ Key(BACKSPACE)
Newline == mode = MODE_INSERT /\ Key(ENTER)
InsertMove == mode = MODE_INSERT /\ \E c \in KeypadMoves : Key(c)
CtrlC == mode = MODE_INSERT /\ Key(CTRL_C)

CommandType ==
    /\ mode = MODE_COMMAND
    /\ \E c \in CommandChars \cup {":"} :
          /\ c # ":" => Append(commandbuf, c) \in CommandPrefixes
          /\ Key(c)
CommandBackspace == mode = MODE_COMMAND /\ Key(BACKSPACE)
CommandEnter == mode = MODE_COMMAND /\ \E writable \in BOOLEAN : Press(ENTER, ERR, writable)

Yank == mode = MODE_SELECTION /\ Key("y")
DeleteSelection == mode = MODE_SELECTION /\ Key("d")

\* the terminal is resized while getch() waits: getch() returns KEY_RESIZE
Resize ==
    /\ running /\ ~fault /\ ungot = NoKey
    /\ \E rows \in TermRows \ {ws_row} :
          /\ Commit(main_loop(E, ws_row, KEY_RESIZE, ERR, TRUE, rows))
          /\ ws_row' = rows

(***************************************************************************)
(* The editing session: the keys of MODE_NORMAL and MODE_INSERT that edit, *)
(* move, undo and redo, on each file and each terminal height.             *)
(***************************************************************************)
Init == Start(TermRows, DiskContents, {TRUE})

Next ==
    \/ Quit \/ Escape \/ Undo \/ Redo \/ Idle
    \/ InsertTrigger \/ EnterInsert \/ DeleteUnderCursor \/ Move
    \/ TypeChar \/ Backspace \/ Newline \/ InsertMove \/ CtrlC

Spec == Init /\ [][Next]_vars

(***************************************************************************)
(* The selection session: selecting, copying, pasting and deleting the     *)
(* selection, and undoing what was pasted.                                 *)
(***************************************************************************)
\* the files of the selection session: empty, one line, and a line before an
\* empty line
SelectFiles == {<<>>, <<"a", "c", LF>>, <<"a", LF, LF>>}

InitSelect == Start({24}, SelectFiles, {TRUE})

NextSelect ==
    \/ Escape \/ Undo \/ Copy \/ Paste
    \/ EnterSelection \/ SelectAll \/ Move
    \/ Yank \/ DeleteSelection

SpecSelect == InitSelect /\ [][NextSelect]_vars

(***************************************************************************)
(* The command session: command lines typed and run, on a buffer that      *)
(* typed characters and new lines make dirty.                              *)
(***************************************************************************)
InitCommand == Start({24}, DiskContents, BOOLEAN)

NextCommand ==
    \/ Quit \/ Escape \/ EnterInsert \/ TypeChar \/ Newline
    \/ EnterCommand \/ CommandType \/ CommandBackspace \/ CommandEnter

SpecCommand == InitCommand /\ [][NextCommand]_vars

(***************************************************************************)
(* The resize session: the terminal changes height between keys that move  *)
(* the cursor and type.                                                    *)
(***************************************************************************)
InitResize == Start(TermRows, DiskContents, {TRUE})

NextResize ==
    \/ Resize \/ Idle \/ Move \/ EnterInsert \/ Escape \/ TypeChar \/ Newline

SpecResize == InitResize /\ [][NextResize]_vars

(***************************************************************************)
(* The clipboard session: a selection is copied or deleted, and a command  *)
(* line saves the buffer, replaces it by the file or empties it, with the  *)
(* clipboard kept.                                                         *)
(***************************************************************************)
\* the files of the clipboard session: a line before an empty line, two
\* lines of one character, and a longer line before a line
ClipFiles == {<<"a", LF, LF>>, <<"a", LF, "c", LF>>, <<"a", "c", LF, "c", LF>>}

InitClipboard == Start({24}, ClipFiles, {TRUE})

NextClipboard ==
    \/ Escape \/ Copy \/ Yank \/ DeleteSelection
    \/ EnterSelection \/ SelectAll \/ Move
    \/ EnterCommand \/ CommandType \/ CommandEnter

SpecClipboard == InitClipboard /\ [][NextClipboard]_vars

(***************************************************************************)
(* The mode session: the keys that enter MODE_INSERT, MODE_SELECTION and   *)
(* MODE_COMMAND and ESC that leaves them, with characters typed, the       *)
(* cursor moved and command lines run in between.                          *)
(***************************************************************************)
InitModes == Start({24}, ClipFiles, {TRUE})

NextModes ==
    \/ Escape \/ EnterInsert \/ TypeChar
    \/ EnterSelection \/ SelectAll \/ Move
    \/ EnterCommand \/ CommandType \/ CommandBackspace \/ CommandEnter

SpecModes == InitModes /\ [][NextModes]_vars

(***************************************************************************)
(* Properties.  A key that edits is one of the three MODE_INSERT keys that *)
(* call editor_insert_char, editor_del_char and editor_insert_newline.     *)
(* A state in which fault holds stands for every behaviour at once and is  *)
(* never counted as breaking a property.                                   *)
(***************************************************************************)
ForwardEdit == TypeChar \/ Backspace \/ Newline

RECURSIVE UndoTimes(_, _)
UndoTimes(e, k) == IF k = 0 THEN e ELSE UndoTimes(editor_undo(e), k - 1)

RECURSIVE RedoTimes(_, _)
RedoTimes(e, k) == IF k = 0 THEN e ELSE RedoTimes(editor_redo(e), k - 1)

\* C1: after a forward edit, one undo per operation the edit recorded gives
\* back the rows and the cursor position (cx, cy) of before the edit (the
\* claim for a sequence of one edit).
UndoRoundTrip ==
    [][(ForwardEdit /\ ~fault') =>
          LET u == UndoTimes(E', Len(undo_stack') - Len(undo_stack))
          IN u.fault \/ (u.row = row /\ u.cx = cx /\ u.cy = cy)]_vars

\* C2: after a forward edit, an undo immediately followed by a redo leaves
\* every row as it was right after the edit.
UndoRedoKeepsLines ==
    [][(ForwardEdit /\ ~fault') =>
          LET r == editor_redo(editor_undo(E'))
          IN r.fault \/ r.row = row']_vars

\* C3: after a forward edit that changes the buffer (a paste, the deletion
\* of a selection) the Redo stack is empty.
EditEmptiesRedo ==
    [][((Paste \/ DeleteSelection) /\ row' # row /\ ~fault') =>
          redo_stack' = <<>>]_vars

\* C4: a call of insert char, delete char or newline that changes the buffer
\* leaves the Undo stack exactly one entry longer.
EditPushesOneOperation ==
    [][(ForwardEdit /\ row' # row /\ ~fault') =>
          Len(undo_stack') = Len(undo_stack) + 1]_vars

\* C5: an undo or a redo leaves |Undo| + |Redo| unchanged.
UndoRedoConserveLog ==
    [][((Undo \/ Redo) /\ ~fault') =>
          Len(undo_stack') + Len(redo_stack') =
              Len(undo_stack) + Len(redo_stack)]_vars

\* C6: in every state, k undos (1 <= k <= number of recorded operations)
\* followed by k redos give back the rows of before the first undo.
UndoneEditsReplay ==
    \A k \in 1 .. Len(undo_stack) :
        LET r == RedoTimes(UndoTimes(E, k), k)
        IN r.fault \/ r.row = row

\* C7: the cursor is inside the buffer: 0 <= cy <= numrows, and
\* 0 <= cx <= length of row cy whenever cy < numrows.
CursorInBuffer ==
    ~fault =>
        /\ 0 <= cy /\ cy <= Len(row)
        /\ cy < Len(row) => (0 <= cx /\ cx <= Len(row[cy + 1]))

\* C8: backspace at column 0 changes nothing in row 0, and in a row cy > 0
\* it merges row cy into row cy - 1: the rows become those before cy - 1, the
\* old row cy - 1 followed by the old row cy, and those after cy.
BackspaceAtColumnZero ==
    [][(Backspace /\ cx = 0 /\ cy < Len(row) /\ ~fault') =>
          IF cy = 0 THEN row' = row
          ELSE row' = Sub(row, 0, cy - 1) \o <<row[cy] \o row[cy + 1]>>
                          \o Sub(row, cy + 1, Len(row))]_vars

\* C9: newline with the cursor at column cx of an existing row cy splits the
\* row: row cy keeps the characters [0, cx), a new row cy + 1 holds the
\* characters [cx, len), the rows after shift down unchanged, and the cursor
\* moves to column 0 of row cy + 1.
NewlineSplitsRow ==
    [][(Newline /\ cy < Len(row) /\ 0 <= cx /\ cx <= Len(row[cy + 1])) =>
          /\ ~fault'
          /\ row' = Sub(row, 0, cy)
                      \o <<Sub(row[cy + 1], 0, cx),
                           Sub(row[cy + 1], cx, Len(row[cy + 1]))>>
                      \o Sub(row, cy + 1, Len(row))
          /\ cx' = 0
          /\ cy' = cy + 1]_vars

\* a newline has just split a row in its middle, with a row after the two
\* halves
NewlineSplitRowDone ==
    /\ mode = MODE_INSERT /\ ~fault
    /\ undo_stack # <<>>
    /\ Head(undo_stack).type = OP_NEWLINE
    /\ Head(undo_stack).cx > 0
    /\ Head(undo_stack).line # <<>>
    /\ cx = 0 /\ cy = Head(undo_stack).cy + 1
    /\ Len(row) > cy + 1
    /\ row[cy + 1] = Head(undo_stack).line

\* the command line asks for a file to be opened: ":e name" on a clean
\* buffer, or ":e! name"
OpenRequested ==
    /\ command_valid(E)
    /\ LET cmd == TrimRight(process_command_prefix(CStr(commandbuf)))
       IN \/ Len(cmd) >= 3 /\ SubSeq(cmd, 1, 3) = <<":", "e", " ">> /\ dirty = 0
          \/ Len(cmd) >= 4 /\ SubSeq(cmd, 1, 4) = <<":", "e", "!", " ">>

\* C10: once editor_open has returned from a ":e" or ":e!" command, the Undo
\* stack and the Redo stack are empty, whether the file was read or not.
OpenEmptiesStacks ==
    [][(CommandEnter /\ OpenRequested /\ ~fault') =>
          (undo_stack' = <<>> /\ redo_stack' = <<>>)]_vars

(***************************************************************************)
(* The clipboard typed by hand: in MODE_INSERT, the key of each character  *)
(* of a line and ENTER between two lines.                                  *)
(***************************************************************************)
RECURSIVE TypeChars(_, _)
TypeChars(e, line) ==
    IF line = <<>> THEN e
    ELSE TypeChars(key_insert(e, Head(line)), Tail(line))

RECURSIVE TypeLines(_, _)
TypeLines(e, lines) ==
    IF lines = <<>> THEN e
    ELSE IF Len(lines) > 1
    THEN TypeLines(key_insert(TypeChars(e, Head(lines)), ENTER), Tail(lines))
    ELSE TypeChars(e, Head(lines))

RECURSIVE CharCount(_)
CharCount(lines) ==
    IF lines = <<>> THEN 0 ELSE Len(Head(lines)) + CharCount(Tail(lines))

\* C11: a paste of the clipboard lines L1..Ln gives the rows, the cursor and
\* the Undo and Redo stacks that typing L1, Enter, L2, ..., Ln in MODE_INSERT
\* gives from the same state, and the Undo stack grows by exactly one
\* operation per character pasted and one per line boundary.
PasteIsTyping ==
    [][(Paste /\ ~fault') =>
          LET Same(t) ==
                  /\ row' = t.row /\ cx' = t.cx /\ cy' = t.cy
                  /\ undo_stack' = t.undo_stack
                  /\ redo_stack' = t.redo_stack
          IN /\ Same(TypeLines([E EXCEPT !.mode = MODE_INSERT], clipboard))
             /\ Len(undo_stack') =
                    Len(undo_stack) + CharCount(clipboard) + Len(clipboard) - 1]_vars

(***************************************************************************)
(* The rows once the text of lines (its line breaks between the lines) is  *)
(* inserted at column x of row y; in a buffer with no row the text is all  *)
(* there is.                                                               *)
(***************************************************************************)
InsertText(rows, x, y, lines) ==
    IF rows = <<>> THEN lines
    ELSE LET r == rows[y + 1]
             n == Len(lines)
         IN IF n = 1
            THEN Sub(rows, 0, y) \o <<Sub(r, 0, x) \o lines[1] \o Sub(r, x, Len(r))>>
                     \o Sub(rows, y + 1, Len(rows))
            ELSE Sub(rows, 0, y) \o <<Sub(r, 0, x) \o lines[1]>>
                     \o Sub(lines, 1, n - 1)
                     \o <<lines[n] \o Sub(r, x, Len(r))>>
                     \o Sub(rows, y + 1, Len(rows))

\* the text of the rows: their characters, with a line break between two rows
RECURSIVE Text(_)
Text(rows) ==
    IF rows = <<>> THEN <<>>
    ELSE IF Len(rows) = 1 THEN Head(rows)
    ELSE Head(rows) \o <<LF>> \o Text(Tail(rows))

\* the cursor is on a position of the buffer, or the buffer has no row
CursorCanPaste ==
    \/ Len(row) = 0
    \/ 0 <= cy /\ cy < Len(row) /\ 0 <= cx /\ cx <= Len(row[cy + 1])

\* C12: in every state in which the clipboard holds lines copied from a
\* selection and the cursor is at a position of the buffer (or the buffer is
\* empty), a paste inserts at the cursor the text of the clipboard, character
\* for character and with the same line breaks: the text of the buffer after
\* the paste is the text before it with the clipboard's text at the cursor.
PasteReproducesCopy ==
    (~fault /\ clipboard # <<>> /\ CursorCanPaste) =>
        LET Pasted(p) ==
                p.fault \/ Text(p.row) = Text(InsertText(row, cx, cy, clipboard))
        IN Pasted(editor_paste(E))

(***************************************************************************)
(* The selection of the current state: its endpoints in row-major order,   *)
(* (SelFirstX, SelFirstY) before (SelLastX, SelLastY).                      *)
(***************************************************************************)
StartIsFirst ==
    sel_start_y < sel_end_y \/ (sel_start_y = sel_end_y /\ sel_start_x <= sel_end_x)
SelFirstX == IF StartIsFirst THEN sel_start_x ELSE sel_end_x
SelFirstY == IF StartIsFirst THEN sel_start_y ELSE sel_end_y
SelLastX == IF StartIsFirst THEN sel_end_x ELSE sel_start_x
SelLastY == IF StartIsFirst THEN sel_end_y ELSE sel_start_y

\* (x, y) is a position of the buffer: a column of row y or its end
InBuffer(x, y) == 0 <= y /\ y < Len(row) /\ 0 <= x /\ x <= Len(row[y + 1])

\* there is a selection and both its endpoints are positions of the buffer
SelectionInBuffer ==
    InBuffer(sel_start_x, sel_start_y) /\ InBuffer(sel_end_x, sel_end_y)

\* the lines of rows from column sc of row sr to column ec of row er
SelectedLines(rows, sc, sr, ec, er) ==
    IF sr = er THEN <<Sub(rows[sr + 1], sc, ec)>>
    ELSE <<Sub(rows[sr + 1], sc, Len(rows[sr + 1]))>>
             \o Sub(rows, sr + 1, er)
             \o <<Sub(rows[er + 1], 0, ec)>>

\* C13: a copy (Ctrl-K or 'y') of a selection that normalizes to
\* (sr, sc)-(er, ec) leaves the clipboard with exactly er - sr + 1 lines and
\* nothing else: the characters [sc, ec) of row sr for a single-row
\* selection; row sr from sc to its end, the rows between whole and the
\* characters [0, ec) of row er for a multi-row one.
CopyTakesSelection ==
    [][((Copy \/ Yank) /\ SelectionInBuffer) =>
          /\ ~fault'
          /\ Len(clipboard') = SelLastY - SelFirstY + 1
          /\ clipboard' = SelectedLines(row, SelFirstX, SelFirstY,
                                        SelLastX, SelLastY)]_vars

\* a copy has just taken two lines, both clipped: the last character of
\* row 0 and nothing of the non-empty row 1
CopiedClippedLines ==
    /\ mode = MODE_NORMAL /\ ~fault /\ sel_start_x = -1
    /\ Len(row) = 2 /\ Len(row[1]) = 2 /\ row[2] # <<>>
    /\ clipboard = <<Sub(row[1], 1, 2), <<>>>>

\* C14: 'd' on a selection that normalizes to (sr, sc)-(er, ec): row sr
\* becomes its characters [0, sc) followed by the characters [ec, len) of
\* row er (of row sr itself when sr = er), the rows sr + 1 .. er are removed
\* so that numrows decreases by er - sr, the other rows keep their content
\* and order, and the cursor ends at column sc of row sr.
DeleteRemovesSelection ==
    [][(DeleteSelection /\ SelectionInBuffer) =>
          /\ ~fault'
          /\ row' = Sub(row, 0, SelFirstY)
                      \o <<Sub(row[SelFirstY + 1], 0, SelFirstX)
                             \o Sub(row[SelLastY + 1], SelLastX,
                                    Len(row[SelLastY + 1]))>>
                      \o Sub(row, SelLastY + 1, Len(row))
          /\ Len(row') = Len(row) - (SelLastY - SelFirstY)
          /\ cx' = SelFirstX
          /\ cy' = SelFirstY]_vars

\* a multi-row selection has just been deleted: the row removed last is row
\* cy + 1, the clipboard holds what was selected of the two rows, and the
\* characters after the cursor are the remainder of the removed row
DeletedAcrossRows ==
    /\ mode = MODE_NORMAL /\ ~fault /\ sel_start_x = -1
    /\ undo_stack # <<>>
    /\ Head(undo_stack).type = OP_DELETE_LINE
    /\ Head(undo_stack).cy = cy + 1
    /\ Len(clipboard) = 2 /\ clipboard[1] # <<>>
    /\ cy < Len(row) /\ cx > 0 /\ cx < Len(row[cy + 1])
    /\ Sub(row[cy + 1], cx, Len(row[cy + 1]))
           = Sub(Head(undo_stack).line, Len(clipboard[2]),
                 Len(Head(undo_stack).line))

\* the positions asked about: every column and row of the model, and one
\* before and one after
AskedColumns == -1 .. MaxLen + 1
AskedRows == -1 .. MaxRows

\* C15: for an armed selection whose endpoints, in either order, normalize
\* to (sr, sc)-(er, ec), is_position_selected(x, y) is true exactly when
\* sr <= y <= er and (y > sr or x >= sc) and (y < er or x < ec); with no
\* selection it is false for every position.
SelectionContainment ==
    \A x \in AskedColumns, y \in AskedRows :
        is_position_selected(E, x, y) =
            IF selecting
            THEN /\ SelFirstY <= y /\ y <= SelLastY
                 /\ (y > SelFirstY \/ x >= SelFirstX)
                 /\ (y < SelLastY \/ x < SelLastX)
            ELSE FALSE

\* a selection is armed with its end before its start, across two rows: its
\* first position is selected, the column before it and its last position
\* are not
BackwardSelectionArmed ==
    /\ mode = MODE_SELECTION /\ selecting /\ ~fault
    /\ sel_end_y < sel_start_y
    /\ sel_end_x > 0
    /\ is_position_selected(E, sel_end_x, sel_end_y)
    /\ ~is_position_selected(E, sel_end_x - 1, sel_end_y)
    /\ ~is_position_selected(E, sel_start_x, sel_start_y)

\* C16: editor_selection_normalize leaves the selection with its start at or
\* before its end in row-major order, its two endpoints are the two it had
\* (swapped at most) and nothing else of E changes, and normalizing the
\* result again changes nothing.
NormalizeOrdersEndpoints ==
    LET Ordered(n) ==
            /\ \/ n.sel_start_y < n.sel_end_y
               \/ n.sel_start_y = n.sel_end_y /\ n.sel_start_x <= n.sel_end_x
            /\ \/ n = E
               \/ n = [E EXCEPT !.sel_start_x = sel_end_x,
                                !.sel_start_y = sel_end_y,
                                !.sel_end_x = sel_start_x,
                                !.sel_end_y = sel_start_y]
            /\ editor_selection_normalize(n) = n
    IN Ordered(editor_selection_normalize(E))

\* a selection is armed with its end before its start on the same row: the
\* endpoints are to be swapped
SameRowBackwardSelection ==
    /\ mode = MODE_SELECTION /\ selecting /\ ~fault
    /\ sel_end_y = sel_start_y
    /\ sel_end_x < sel_start_x
    /\ editor_selection_normalize(E).sel_start_x = sel_end_x

\* C17: after Ctrl-A in MODE_NORMAL the mode is MODE_SELECTION and the
\* selection is armed over the whole buffer, empty or not: its start is
\* column 0 of row 0, its end is the end of the last row when there is one,
\* and every character position of every row is selected.
SelectAllCoversBuffer ==
    [][(SelectAll /\ ~fault') =>
          /\ mode' = MODE_SELECTION
          /\ selecting'
          /\ sel_start_x' = 0 /\ sel_start_y' = 0
          /\ Len(row) > 0 =>
                 (sel_end_y' = Len(row) - 1 /\ sel_end_x' = Len(row[Len(row)]))
          /\ \A y \in 0 .. Len(row) - 1 : \A x \in 0 .. Len(row[y + 1]) - 1 :
                 is_position_selected(E', x, y)]_vars

\* C18: a cursor-movement key in MODE_SELECTION leaves the end of an armed
\* selection at the cursor's new position and its start where it was; when
\* no selection is armed, the update changes neither endpoint.  (A movement
\* whose behaviour is undefined, Page Down in a buffer with no row, is not
\* a movement the property speaks of.)
MoveUpdatesSelectionEnd ==
    [][(Move /\ mode = MODE_SELECTION /\ ~fault') =>
          /\ sel_start_x' = sel_start_x /\ sel_start_y' = sel_start_y
          /\ IF selecting
             THEN sel_end_x' = cx' /\ sel_end_y' = cy'
             ELSE sel_end_x' = sel_end_x /\ sel_end_y' = sel_end_y]_vars

\* the cursor has moved from the anchor of an armed selection to another
\* row, and the end of the selection is where the cursor is
SelectionEndMoved ==
    /\ mode = MODE_SELECTION /\ selecting /\ ~fault
    /\ sel_end_x = cx /\ sel_end_y = cy
    /\ sel_start_y # cy
    /\ sel_start_x # cx

\* C19: ESC in MODE_INSERT, MODE_SELECTION or MODE_COMMAND gives MODE_NORMAL
\* with the command buffer empty and the selection cleared (both endpoints
\* (-1, -1), not armed); the cursor moves, one column left, only when the
\* mode was MODE_INSERT and cx > 0 (and it does move then in a buffer that
\* has a row), and is unchanged when the mode was MODE_SELECTION or
\* MODE_COMMAND; the rows and both stacks are unchanged.
EscapeReturnsToNormal ==
    [][Escape =>
          /\ ~fault'
          /\ mode' = MODE_NORMAL
          /\ commandbuf' = <<>>
          /\ sel_start_x' = -1 /\ sel_start_y' = -1
          /\ sel_end_x' = -1 /\ sel_end_y' = -1
          /\ ~selecting'
          /\ cy' = cy
          /\ cx' # cx => (mode = MODE_INSERT /\ cx > 0 /\ cx' = cx - 1)
          /\ (mode = MODE_INSERT /\ cx > 0 /\ Len(row) > 0) => cx' = cx - 1
          /\ row' = row
          /\ undo_stack' = undo_stack
          /\ redo_stack' = redo_stack]_vars

\* ESC has just left MODE_INSERT after a character was typed: the cursor is
\* on the character typed last, one column left of where typing left it
EscapedFromInsert ==
    /\ mode = MODE_NORMAL /\ ~fault
    /\ commandbuf = <<>> /\ sel_start_x = -1 /\ ~selecting
    /\ undo_stack # <<>>
    /\ Head(undo_stack).type = OP_INSERT_CHAR
    /\ cx = Head(undo_stack).cx /\ cy = Head(undo_stack).cy
    /\ cy < Len(row) /\ cx < Len(row[cy + 1])
    /\ row[cy + 1][cx + 1] = Head(undo_stack).c

\* C20: Enter in MODE_COMMAND runs the command line and, unless the command
\* ends the editor, leaves MODE_NORMAL with the command buffer empty, for a
\* valid command, an unknown one and an empty one alike.
CommandEnterReturnsToNormal ==
    [][(CommandEnter /\ running' /\ ~fault') =>
          (mode' = MODE_NORMAL /\ commandbuf' = <<>>)]_vars

(***************************************************************************)
(* The "cc" lookahead.  The second getch() of case 'c' reads next_c, and   *)
(* ungetch(next_c) leaves it for the getch() of the next iteration of the  *)
(* loop of main.  KeySequence is E once the iteration that reads c and     *)
(* next_c, and then the iteration that reads the key pushed back, if one   *)
(* was, have run.                                                          *)
(***************************************************************************)
ReadUngot(s) ==
    IF s.ungot # NoKey /\ s.running /\ ~s.fault
    THEN main_loop(s, ws_row, s.ungot, ERR, TRUE, ws_row)
    ELSE s

KeySequence(e, c, next_c) ==
    ReadUngot(main_loop(e, ws_row, c, next_c, TRUE, ws_row))

\* C21: in MODE_NORMAL, 'c' followed by 'c' within the wait leaves
\* MODE_INSERT with no key pushed back left to read, and with the rows and
\* the Undo stack as they were before the two keys.
InsertTriggerConsumesBoth ==
    (running /\ ~fault /\ mode = MODE_NORMAL /\ ungot = NoKey) =>
        LET Done(s) == \/ s.fault
                       \/ /\ s.mode = MODE_INSERT
                          /\ s.ungot = NoKey
                          /\ s.row = row
                          /\ s.undo_stack = undo_stack
        IN Done(KeySequence(E, "c", "c"))

\* E with the two fields that only editor_refresh_screen changes set as in
\* the current state: what a key did, apart from the redraw
SameScreen(s) == [s EXCEPT !.rowoff = rowoff, !.screenrows = screenrows]

\* C22: in MODE_NORMAL, 'c' followed by a key other than 'c' leaves
\* MODE_NORMAL with that key pushed back and nothing else changed, and the
\* next iteration, which reads the key pushed back, leaves what pressing the
\* key alone in MODE_NORMAL leaves, with no key pushed back any more; 'c'
\* followed by no key within the wait pushes nothing back and changes
\* nothing.
LookaheadPushesBack ==
    (running /\ ~fault /\ mode = MODE_NORMAL /\ ungot = NoKey) =>
        \A next_c \in LookaheadKeys \ {"c"} :
            LET Looked(s1) ==
                    /\ s1.mode = MODE_NORMAL
                    /\ SameScreen(s1) =
                          [E EXCEPT !.ungot = IF next_c = ERR THEN NoKey
                                              ELSE next_c]
                    /\ next_c # ERR =>
                          LET Dispatched(s2) ==
                                  /\ s2.ungot = NoKey
                                  /\ s2 = main_loop(E, ws_row, next_c, ERR, TRUE,
                                                    ws_row)
                          IN Dispatched(ReadUngot(s1))
            IN Looked(main_loop(E, ws_row, "c", next_c, TRUE, ws_row))

\* 'x' was pushed back by the lookahead of 'c', on a buffer that has a row
KeyPushedBack ==
    ~fault /\ mode = MODE_NORMAL /\ ungot = "x" /\ row # <<>>

\* C23: Ctrl-Z pressed in MODE_NORMAL, MODE_INSERT or MODE_SELECTION leaves
\* what editor_undo() leaves, and Ctrl-Y what editor_redo() leaves.
UndoRedoShortcuts ==
    (running /\ ~fault /\ ungot = NoKey
       /\ mode \in {MODE_NORMAL, MODE_INSERT, MODE_SELECTION}) =>
        /\ editor_process_keypress(E, CTRL_Z, ERR, TRUE) = editor_undo(E)
        /\ editor_process_keypress(E, CTRL_Y, ERR, TRUE) = editor_redo(E)

\* C24: editor_undo() with an empty Undo stack and editor_redo() with an
\* empty Redo stack change nothing: rows, cursor, dirty counter and both
\* stacks stay as they are.
EmptyStackNoOp ==
    ~fault =>
        /\ undo_stack = <<>> => editor_undo(E) = E
        /\ redo_stack = <<>> => editor_redo(E) = E

\* every operation was undone: the Undo stack is empty with the cursor away
\* from the first column, and the Redo stack holds what was undone
EverythingUndone ==
    ~fault /\ undo_stack = <<>> /\ redo_stack # <<>> /\ cx > 0

\* C25: no copy of line content made for an operation of the Undo or Redo
\* stack or for the clipboard is leaked: each is freed when its operation is
\* evicted or when the next copy replaces the clipboard.
NoLineCopyLeaked == ~leaked

(***************************************************************************)
(* Allocation failure.  editor_insert_row and editor_insert_char above are *)
(* the functions when every allocation succeeds; these are the functions   *)
(* when one allocation returns NULL.  In editor_insert_row the allocation  *)
(* that fails is the realloc of E.row ("new_rows") or the malloc of the    *)
(* new row's characters ("chars"), which comes after the memmove of the    *)
(* rows; in editor_insert_char it is the realloc of the row's characters,  *)
(* which comes after push_operation.                                       *)
(***************************************************************************)
\* a row whose chars pointer is NULL; its size is the one the row that was
\* at that index had
NoChars == <<"NULL">>

insert_row_alloc_fails(e, at, s, failed) ==
    IF e.fault THEN e
    ELSE IF at < 0 \/ at > numrows(e) THEN e
    ELSE IF failed = "new_rows" THEN e
    ELSE \* E.numrows is not incremented: the last row is out of the buffer
         [e EXCEPT !.row = Sub(InsertAt(e.row, at, NoChars), 0, numrows(e))]

insert_char_alloc_fails(e, c) ==
    IF e.fault THEN e
    ELSE
      LET \* e1: E once the row was appended
          Insert(e1) ==
              IF ~ValidRow(e1, e1.cy) THEN Fault(e1)
              ELSE [e1 EXCEPT
                      !.undo_stack =
                          push_operation(@, OP_INSERT_CHAR, e1.cx, e1.cy, c, <<>>)]
      IN Insert(IF e.cy = numrows(e) THEN editor_insert_row(e, numrows(e), <<>>)
                ELSE e)

\* C26: when an allocation fails in editor_insert_row or editor_insert_char
\* the rows are what they were before the call, each with its characters,
\* and the Undo stack holds no operation for the edit that was given up.
AllocFailureAborts ==
    ~fault =>
        /\ \A at \in 0 .. Len(row) : \A failed \in {"new_rows", "chars"} :
              LET Aborted(r) == r.row = row /\ r.undo_stack = undo_stack
              IN Aborted(insert_row_alloc_fails(E, at, <<"a">>, failed))
        /\ \A c \in Chars :
              LET Aborted(r) ==
                      r.fault \/ (r.row = row /\ r.undo_stack = undo_stack)
              IN Aborted(insert_char_alloc_fails(E, c))

\* C27: no key sequence makes the code read or write a row outside
\* E.row[0 .. numrows-1] or a column outside a row's characters.
AccessesInBounds == ~fault

\* the texts given to editor_insert_row
RowTexts == {<<>>, <<"a">>, <<"c", "a">>}

\* C28: editor_insert_row with at outside [0, numrows] and editor_del_row
\* with at outside [0, numrows) change nothing: the rows, numrows, dirty and
\* both stacks stay as they are.
RowIndexOutOfRangeNoOp ==
    ~fault =>
        /\ \A at \in {-2, -1, Len(row) + 1, Len(row) + 2} : \A s \in RowTexts :
              editor_insert_row(E, at, s) = E
        /\ \A at \in {-2, -1, Len(row), Len(row) + 1} :
              editor_del_row(E, at) = E

\* a buffer with rows, a dirty counter above 0 and operations on both stacks,
\* all of which an index out of range must leave alone
RowsAndStacksInUse ==
    /\ ~fault /\ Len(row) > 1 /\ dirty > 0
    /\ undo_stack # <<>> /\ redo_stack # <<>>

\* C29: editor_insert_row(at, s) with 0 <= at <= numrows leaves the rows
\* before at where they were, s at index at and each row from at on one
\* index later, with numrows one more; editor_del_row(at) with
\* 0 <= at < numrows leaves the rows before at where they were and each row
\* after at one index earlier, with numrows one less.
RowInsertDeleteShift ==
    ~fault =>
        /\ \A at \in 0 .. Len(row) : \A s \in RowTexts :
              LET Inserted(r) ==
                      /\ numrows(r) = Len(row) + 1
                      /\ \A i \in 0 .. at - 1 : Row(r, i) = row[i + 1]
                      /\ Row(r, at) = s
                      /\ \A i \in at .. Len(row) - 1 : Row(r, i + 1) = row[i + 1]
              IN Inserted(editor_insert_row(E, at, s))
        /\ \A at \in 0 .. Len(row) - 1 :
              LET Deleted(r) ==
                      /\ numrows(r) = Len(row) - 1
                      /\ \A i \in 0 .. at - 1 : Row(r, i) = row[i + 1]
                      /\ \A i \in at + 1 .. Len(row) - 1 :
                            Row(r, i - 1) = row[i + 1]
              IN Deleted(editor_del_row(E, at))

\* Backspace at the first column of the second of two rows: a row was
\* inserted at index 0, before the two rows, and then the row at index 1
\* deleted, before the last row
RowsShiftedBothWays ==
    /\ ~fault /\ Len(row) = 2 /\ Len(undo_stack) >= 2
    /\ undo_stack[1].type = OP_DELETE_LINE /\ undo_stack[1].cy = 1
    /\ undo_stack[2].type = OP_INSERT_LINE /\ undo_stack[2].cy = 0

(***************************************************************************)
(* The dirty session: the keys that change the buffer (a character typed,  *)
(* Backspace, Enter, the deletion of the whole buffer selected, undo and   *)
(* redo) between command lines that save the buffer and load the file.     *)
(* Enter on a command line leaves the editor in MODE_COMMAND, so ESC is    *)
(* the way back to the keys that edit.                                     *)
(***************************************************************************)
DirtyFiles == {<<"a", LF>>}
DirtyCommands == {<<":", "w">>, <<":", "e", "!", " ", "f">>}
DirtyPrefixes == UNION {{SubSeq(t, 1, k) : k \in 0 .. Len(t)} : t \in DirtyCommands}

TypeOne == mode = MODE_INSERT /\ Key("c")
LeaveInsert == mode = MODE_INSERT /\ Key(ESC)
LeaveCommand == mode = MODE_COMMAND /\ Key(ESC)
DirtyCommandType ==
    /\ mode = MODE_COMMAND
    /\ \E c \in CommandChars : Append(commandbuf, c) \in DirtyPrefixes /\ Key(c)
\* fopen(E.filename, "w") succeeds as long as the file holds what it held
\* when the editor started
DirtyCommandEnter == mode = MODE_COMMAND /\ Press(ENTER, ERR, disk \in DirtyFiles)

InitDirty == Start({24}, DirtyFiles, {TRUE})

NextDirty ==
    \/ LeaveInsert \/ LeaveCommand \/ Undo \/ Redo
    \/ EnterInsert \/ TypeOne \/ Backspace \/ Newline
    \/ SelectAll \/ DeleteSelection
    \/ EnterCommand \/ DirtyCommandType \/ DirtyCommandEnter

SpecDirty == InitDirty /\ [][NextDirty]_vars

\* the rows editor_open appends for the bytes of a file
FileRows(bytes) ==
    [i \in 1 .. Len(GetLines(bytes)) |-> StripEOL(GetLines(bytes)[i])]

\* the step ran editor_open on a file that fopen opened: the buffer is the
\* file's lines, E.dirty is 0 and both stacks are empty
StepLoads ==
    /\ mode = MODE_COMMAND /\ disk # NoFile
    /\ row' = FileRows(disk) /\ dirty' = 0
    /\ undo_stack' = <<>> /\ redo_stack' = <<>>

\* the step ran editor_save and fopen succeeded: the file is the buffer's
\* rows, the buffer is as it was and E.dirty is 0
StepSaves ==
    /\ mode = MODE_COMMAND
    /\ row' = row /\ disk' = WriteRows(row) /\ dirty' = 0

\* C30: every step that changes the content of the buffer's rows increases
\* E.dirty, unless the step loaded the file (the rows are then the file's and
\* E.dirty is 0); and a step ends with E.dirty = 0 only if it loaded the file,
\* saved the buffer, or started with E.dirty = 0 and left the rows as they
\* were.  Hence, by induction over the steps, E.dirty = 0 implies that the
\* rows are those of the most recent load or save, or those at startup.
DirtyCountsMutations ==
    [][~fault' =>
          /\ row' # row => dirty' > dirty \/ StepLoads
          /\ dirty' = 0 => (dirty = 0 /\ row' = row) \/ StepLoads \/ StepSaves]_vars

\* edits were made and saved: E.dirty is 0 again, the Undo stack still holds
\* the edits and the file no longer holds what it held at start
SavedAfterEdits ==
    /\ ~fault /\ dirty = 0 /\ undo_stack # <<>>
    /\ disk \notin DirtyFiles /\ disk = WriteRows(row)

\* C31: no row of the buffer holds a newline character, whatever was loaded,
\* typed, split by Enter, undone and redone.
NoNewlineInRows ==
    ~fault => \A i \in 1 .. Len(row) : \A j \in 1 .. Len(row[i]) : row[i][j] # LF

\* Enter made a row and its operation, which holds '\n' as its character,
\* went through undo to the Redo stack
NewlineRecordedAndUndone ==
    /\ ~fault /\ row # <<>>
    /\ redo_stack # <<>> /\ Head(redo_stack).type = OP_NEWLINE
    /\ Head(redo_stack).c = LF

\* the number of bytes of a file before its i-th line, when its lines are
\* rows, each followed by one newline
RECURSIVE RowStart(_, _)
RowStart(rows, i) ==
    IF i <= 1 THEN 0 ELSE RowStart(rows, i - 1) + Len(rows[i - 1]) + 1

\* bytes is what the fwrite calls of editor_save write for rows
WrittenRows(bytes, rows) ==
    /\ Len(bytes) = RowStart(rows, Len(rows) + 1)
    /\ \A i \in 1 .. Len(rows) :
          /\ \A j \in 1 .. Len(rows[i]) : bytes[RowStart(rows, i) + j] = rows[i][j]
          /\ bytes[RowStart(rows, i) + Len(rows[i]) + 1] = LF

\* C32: Enter on the command line ":w".  With a file name and a file that
\* fopen opens for writing, the file becomes every row followed by one
\* newline, in the order of the rows, and E.dirty becomes 0; with no file
\* name, or a file that fopen does not open, the rows, E.dirty, the cursor,
\* the mode, both stacks and the file are as they were and the editor runs on.
SaveWritesRows ==
    ~fault /\ running /\ mode = MODE_COMMAND /\ CStr(commandbuf) = <<":", "w">> =>
        \A writable \in BOOLEAN :
            LET Saved(n) ==
                    /\ ~n.fault /\ n.running
                    /\ n.row = row /\ n.cx = cx /\ n.cy = cy /\ n.mode = mode
                    /\ n.undo_stack = undo_stack /\ n.redo_stack = redo_stack
                    /\ IF filename = FileName /\ writable
                       THEN WrittenRows(n.disk, row) /\ n.dirty = 0
                       ELSE n.disk = disk /\ n.dirty = dirty
            IN Saved(main_loop(E, ws_row, ENTER, ERR, writable, ws_row))

\* ":w" was run on a buffer of two rows or more that had been edited: the
\* file holds the rows and E.dirty is 0
EditedBufferSaved ==
    /\ ~fault /\ mode = MODE_COMMAND /\ CStr(commandbuf) = <<":", "w">>
    /\ Len(row) >= 2 /\ undo_stack # <<>> /\ dirty = 0
    /\ WrittenRows(disk, row)

\* rows with the rows at the 0-based indices y and y + 1 joined into one
JoinedAt(rows, y) ==
    SubSeq(rows, 1, y) \o <<rows[y + 1] \o rows[y + 2]>>
                       \o SubSeq(rows, y + 3, Len(rows))

\* C33: when the operation on top of the Undo stack is the OP_NEWLINE of a
\* split (the rows at its recorded row and the one after exist), undo joins
\* these two rows and puts the cursor at the recorded column and row,
\* wherever the cursor is.
UndoNewlineRejoinsSplit ==
    ~fault /\ undo_stack # <<>> =>
        LET op == Head(undo_stack)
            Rejoined(n) ==
                ~n.fault =>
                    /\ n.row = JoinedAt(row, op.cy)
                    /\ n.cx = op.cx /\ n.cy = op.cy
        IN op.type = OP_NEWLINE /\ Len(row) >= op.cy + 2 => Rejoined(editor_undo(E))

\* C34: as many undos as the Undo stack has entries empty it.
RepeatedUndoEmptiesStack ==
    ~fault =>
        LET Emptied(n) == ~n.fault => n.undo_stack = <<>>
        IN Emptied(UndoTimes(E, Len(undo_stack)))

\* C35: after 'd' in MODE_SELECTION, one undo per operation the deletion
\* pushed onto the Undo stack gives back the rows of before the deletion.
SelectionDeleteUndone ==
    ~fault /\ running /\ mode = MODE_SELECTION =>
        LET Undone(u) == ~u.fault => u.row = row
            Deleted(n) ==
                ~n.fault /\ Len(n.undo_stack) >= Len(undo_stack) =>
                    Undone(UndoTimes(n, Len(n.undo_stack) - Len(undo_stack)))
        IN Deleted(main_loop(E, ws_row, "d", ERR, TRUE, ws_row))

\* the command lines that quit without force
QuitCommands == {<<":", "q">>, <<":", "q", "u", "i", "t">>}
SaveQuitCommands == {<<":", "w", "q">>, <<":", "s", "q">>}

\* C36: Enter in MODE_COMMAND on a command line that quits without force.
\* ":q" and ":quit" end the editor when E.dirty is 0 and otherwise leave it
\* running with the rows and E.dirty as they were; ":wq" and ":sq" end it
\* with the rows written and E.dirty = 0 when there is a file name and fopen
\* opens the file, and otherwise leave it running with the rows, E.dirty and
\* the file as they were.  So E.dirty is 0 whenever these commands end the
\* editor.
QuitOnlyWhenClean ==
    ~fault /\ running /\ mode = MODE_COMMAND =>
        \A writable \in BOOLEAN :
            LET Kept(n) == n.running /\ n.row = row /\ n.dirty = dirty /\ n.disk = disk
                Quit_q(n) ==
                    ~n.fault =>
                        IF dirty = 0 THEN ~n.running /\ n.dirty = 0 /\ n.row = row
                        ELSE Kept(n)
                Quit_wq(n) ==
                    ~n.fault =>
                        IF filename = FileName /\ writable
                        THEN ~n.running /\ n.dirty = 0 /\ WrittenRows(n.disk, row)
                        ELSE Kept(n)
            IN /\ \A cmd \in QuitCommands :
                     Quit_q(main_loop([E EXCEPT !.commandbuf = cmd], ws_row, ENTER,
                                      ERR, writable, ws_row))
               /\ \A cmd \in SaveQuitCommands :
                     Quit_wq(main_loop([E EXCEPT !.commandbuf = cmd], ws_row, ENTER,
                                       ERR, writable, ws_row))

\* ":wq" ended the editor on an edited buffer: the rows are in the file and
\* E.dirty is 0
EditedBufferSavedAtExit ==
    /\ ~fault /\ ~running /\ CStr(commandbuf) = <<":", "w", "q">>
    /\ undo_stack # <<>> /\ dirty = 0 /\ WrittenRows(disk, row)

\* C37: 'x' in MODE_NORMAL with the cursor on a character of its row leaves
\* the row one character shorter: the characters before column E.cx and
\* those after it, in their order, and the other rows as they were.
DeleteUnderCursorRemovesChar ==
    ~fault /\ running /\ mode = MODE_NORMAL /\ ungot = NoKey
           /\ ValidRow(E, cy) /\ 0 <= cx /\ cx < RowSize(E, cy) =>
        LET Removed(n) ==
                ~n.fault =>
                    /\ Len(n.row) = Len(row)
                    /\ Len(n.row[cy + 1]) = Len(row[cy + 1]) - 1
                    /\ \A j \in 1 .. cx : n.row[cy + 1][j] = row[cy + 1][j]
                    /\ \A j \in cx + 1 .. Len(row[cy + 1]) - 1 :
                          n.row[cy + 1][j] = row[cy + 1][j + 1]
                    /\ \A i \in 1 .. Len(row) : i # cy + 1 => n.row[i] = row[i]
        IN Removed(main_loop(E, ws_row, "x", ERR, TRUE, ws_row))

\* C38: in MODE_SELECTION with a selection armed, both endpoints of the
\* selection are positions of the buffer: a row that exists and a column
\* from 0 to the length of that row.
ArmedSelectionInBuffer ==
    ~fault /\ mode = MODE_SELECTION /\ selecting => SelectionInBuffer


\* C39: whenever the mode is not MODE_SELECTION no selection exists: the
\* selecting flag is clear and the four endpoints hold -1, so every key that
\* leaves MODE_SELECTION (ESC, Ctrl-K, 'y', 'd') has cleared the selection.
NoSelectionOutsideSelectionMode ==
    ~fault /\ mode # MODE_SELECTION =>
        /\ ~selecting
        /\ sel_start_x = -1 /\ sel_start_y = -1
        /\ sel_end_x = -1 /\ sel_end_y = -1

\* a selection was copied, yanked or deleted and the editor is back in
\* MODE_NORMAL
SelectionLeftWithClipboard ==
    /\ ~fault /\ mode = MODE_NORMAL /\ clipboard # <<>>
    /\ ~selecting /\ sel_start_x = -1 /\ sel_end_y = -1


\* every key code the keypress handler of the model tells apart
AllKeys ==
    Printable \cup KeypadMoves
        \cup {ESC, ENTER, BACKSPACE, CTRL_A, CTRL_C, CTRL_K, CTRL_Q, CTRL_V,
              CTRL_Y, CTRL_Z}

\* C40: mode transitions pass through MODE_NORMAL: in every state, whatever
\* key is pressed next, the mode either stays what it is, or changes from
\* MODE_NORMAL, or changes to MODE_NORMAL; so MODE_INSERT, MODE_COMMAND and
\* MODE_SELECTION are entered from MODE_NORMAL only and left for MODE_NORMAL
\* only, and no key moves between two of them.
ModesPassThroughNormal ==
    running /\ ~fault =>
        \A c \in AllKeys :
            \A next_c \in IF c = "c" THEN LookaheadKeys ELSE {ERR} :
                \A writable \in IF c = ENTER THEN BOOLEAN ELSE {TRUE} :
                    LET Through(n) ==
                            \/ n.fault
                            \/ n.mode = mode
                            \/ mode = MODE_NORMAL
                            \/ n.mode = MODE_NORMAL
                    IN ungot \in {NoKey, c} =>
                           Through(main_loop(E, ws_row, c, next_c, writable,
                                             ws_row))

\* MODE_SELECTION entered on a buffer that was edited in MODE_INSERT before
SelectionAfterInsertSession ==
    ~fault /\ mode = MODE_SELECTION /\ selecting /\ dirty > 0

=============================================================================
